---- MODULE Spec2Model ----
(***************************************************************************)
(* Model of the pokedex data-access layer: the Map-based Cache, the        *)
(* throttle RequestQueue and the StorageHelper of src/js/api.js, the       *)
(* lruQueue Cache, the queue-based RequestQueue and batchFetchPokemon of   *)
(* src/js/pokedex.js, and getPokemonData, the preloading, the navigation,  *)
(* the name list loading, the debounced search and the fuzzy matcher of    *)
(* src/js/controller.js.                                                   *)
(*                                                                         *)
(* Each component has its own specification (SpecCache, SpecLru,           *)
(* SpecThrottle, SpecQueue, SpecQueueLive with fairness, SpecData,         *)
(* SpecBatch, SpecNav, SpecList, SpecSearch, SpecLev, SpecFuzzy) over the  *)
(* shared variables; a specification leaves the variables of the other     *)
(* components at their initial values.                                     *)
(***************************************************************************)
EXTENDS Integers, Sequences, FiniteSets, TLC

\* ------------------------------------------------------------------ bounds
\* Scaled-down stand-ins for the constructor parameters (CACHE_MAX_SIZE,
\* CACHE_EXPIRATION, MIN_REQUEST_INTERVAL) and the limits of the exploration.
MaxSize == 3
Expiry == 1
MinInterval == 1
MaxTicks == 2
MaxCalls == 2
MaxReq == 3
MaxSearches == 3
PageSize == 2
MaxRemote == 3
ListTTL == 1
MaxLen == 3
MaxNames == 3
MaxResults == 2
LruMaxSize == 2
MaxNav == 3

\* ------------------------------------------------------------------ clock
\* Date.now(): lastRequestTime starts at 0 and the wall clock is far beyond
\* minInterval, so the first request never waits.
StartTime == MinInterval + 1
EndTime == StartTime + MaxTicks

\* ------------------------------------------------------------------ values
Null == 0
NoKey == "none"
Pokemon == {"1", "2"}
NameOf(id) == IF id = "1" THEN "a" ELSE "b"
NameKey(name) == "name_" \o name
Keys == Pokemon \cup {NameKey(NameOf(id)) : id \in Pokemon}
\* the keys the Cache specification draws set, get and has from
CacheKeys == Keys
\* the value a caller stores at time t: it tells the writes of a key apart
ValueAt(t) == t

VARIABLES
  now,        \* Date.now()
  cache,      \* Cache.cache: the Map, as the sequence of its entries in insertion order
  recency,    \* history: keys in the order of their last set or get-hit, oldest first
  lastOp,     \* history: the Cache call of the step just taken, its result and what it removed
  lastSet,    \* history: per key, the value and time of its last set, while that entry is owed
  lastRequestTime,  \* RequestQueue.lastRequestTime (src/js/api.js)
  tcall,      \* the enqueue calls of the throttle: where each stands, when it started and ended
  dispatched, \* history: the throttle's calls in the order their fetch started
  queue,      \* RequestQueue.queue (src/js/pokedex.js): the pending requests
  processing, \* RequestQueue.processing
  lastRequest,\* RequestQueue.lastRequest
  active,     \* the invocations of process() suspended at an await
  timers,     \* the pending setTimeout(() => this.process(), 0) callbacks
  enqueued,   \* history: the requests in the order enqueue was called
  qdispatched,\* history: the requests in the order their fetch started
  settled,    \* how each request's promise settled
  dcall,      \* the getPokemonData calls (src/js/controller.js): where each stands
  currentId,  \* state.currentId
  nameMap,    \* state.pokemonNameMap, as the set of its <<name, id>> pairs
  searchTimeout,          \* state.searchTimeout: the debounce timer last set, or Null
  searchAbortController,  \* state.searchAbortController: the controller last created, or Null
  search,     \* the scheduled searches: where the timer and _performSearch of each stand
  aborted,    \* the AbortControllers whose abort() was called
  signalOf,   \* for each getPokemonData call, the search whose signal it was given
  shownError, \* the searches whose operation called ui.showError
  totalPokemon,      \* state.totalPokemon
  pokemonList,       \* state.pokemonList
  pokemonNameArray,  \* state.pokemonNameArray
  storage,    \* localStorage: the items under the list key and its timestamp key
  remoteCount,\* the catalog service: how many entries pokemon?limit&offset lists
  lcall,      \* the loadPokemonList call of this page session: where it stands
  saved,      \* history: the list this program last persisted, with the map and array built then
  lruCache,   \* Cache.cache (src/js/pokedex.js): the Map, as the set of its entries
  lruQueue,   \* Cache.lruQueue: keys, the least recently used first
  lruTouched, \* history: the keys present, in the order of their last get-hit or set
  lruShifted, \* history: the keys the last set's prune took off the queue
  lruVersion, \* which Cache is running: that of src/js/pokedex.js or of src/unnamed/part_003
  isNavigating, \* state.isNavigating
  nav,        \* the calls of navigatePokemon: where each stands, its direction and target
  batch,      \* a call of batchFetchPokemon or _preloadAdjacent: its identifiers and outcomes
  lev,        \* a call of _computeLevenshtein: its arguments and what it returned
  fz          \* a call of _fuzzySearch: the name array and query it read and what it returned

cacheVars == <<cache, recency, lastOp, lastSet>>
throttleVars == <<lastRequestTime, tcall, dispatched>>
queueVars == <<queue, processing, lastRequest, active, timers, enqueued, qdispatched, settled>>
dataVars == <<dcall, currentId, nameMap>>
searchVars == <<searchTimeout, searchAbortController, search, aborted, signalOf, shownError>>
listVars == <<totalPokemon, pokemonList, pokemonNameArray, storage, remoteCount, lcall, saved>>
fuzzyVars == <<lev, fz>>
batchVars == <<batch>>
lruVars == <<lruCache, lruQueue, lruTouched, lruShifted, lruVersion>>
navVars == <<isNavigating, nav>>
restVars == <<searchVars, listVars, fuzzyVars, batchVars, lruVars, navVars>>
vars == <<now, cacheVars, throttleVars, queueVars, dataVars, restVars>>

\* ------------------------------------------------------------------ Cache (src/js/api.js)
HasKey(c, k) == \E i \in 1..Len(c) : c[i].key = k
EntryOf(c, k) == c[CHOOSE i \in 1..Len(c) : c[i].key = k]
IsExpired_AtExpiry(e, t) == t - e.timestamp >= Expiry
IsExpired(e, t) == t - e.timestamp > Expiry
MapDelete(c, k) == SelectSeq(c, LAMBDA e : e.key # k)
\* Map.prototype.set: an existing key keeps its position, a new key goes last.
MapSet_KeepFirst(c, k, e) == IF HasKey(c, k) THEN c ELSE Append(c, e)
MapSet(c, k, e) ==
  IF HasKey(c, k)
    THEN [i \in 1..Len(c) |-> IF c[i].key = k THEN e ELSE c[i]]
    ELSE Append(c, e)
CleanupExpired(c, t) == SelectSeq(c, LAMBDA e : ~IsExpired(e, t))
\* this.cache.delete(this.cache.keys().next().value)
DeleteFirst(c) == IF Len(c) = 0 THEN c ELSE Tail(c)

CacheSet_NoEvict(c, k, v, t) ==
  LET c1 == IF Len(c) >= MaxSize THEN CleanupExpired(c, t) ELSE c
  IN MapSet(c1, k, [key |-> k, value |-> v, timestamp |-> t])
CacheSet(c, k, v, t) ==
  LET c1 == IF Len(c) >= MaxSize THEN CleanupExpired(c, t) ELSE c
      c2 == IF Len(c1) >= MaxSize THEN DeleteFirst(c1) ELSE c1
  IN MapSet(c2, k, [key |-> k, value |-> v, timestamp |-> t])
\* the key that set removes to make room (NoKey when it removes none)
EvictedBySet(c, t) ==
  LET c1 == IF Len(c) >= MaxSize THEN CleanupExpired(c, t) ELSE c
  IN IF Len(c1) >= MaxSize /\ Len(c1) > 0 THEN c1[1].key ELSE NoKey

CacheGetValue_NoExpiry(c, k, t) ==
  IF ~HasKey(c, k) THEN Null ELSE EntryOf(c, k).value
CacheGetValue(c, k, t) ==
  IF ~HasKey(c, k) THEN Null
  ELSE IF IsExpired(EntryOf(c, k), t) THEN Null
  ELSE EntryOf(c, k).value
\* get and has delete the entry they find expired
CacheAfterGet(c, k, t) ==
  IF HasKey(c, k) /\ IsExpired(EntryOf(c, k), t) THEN MapDelete(c, k) ELSE c
CacheHasValue(c, k, t) ==
  IF ~HasKey(c, k) THEN FALSE
  ELSE IF IsExpired(EntryOf(c, k), t) THEN FALSE
  ELSE TRUE

\* history of touches: k becomes the most recent key, absent keys are dropped
Touch(r, k) == Append(SelectSeq(r, LAMBDA x : x # k), k)
Present(r, c) == SelectSeq(r, LAMBDA x : HasKey(c, x))
LeastRecentKey(c, r) == IF Len(Present(r, c)) = 0 THEN NoKey ELSE Present(r, c)[1]

NoOp == [op |-> "none", key |-> NoKey, result |-> Null, storedAt |-> -1, evicted |-> NoKey]

\* no set of the key is owed: never set, evicted, cleared or past its expiry
NoStore == [value |-> Null, storedAt |-> -1]
\* the clock reaches t: the sets that are past their expiry are owed no more
Lapse(ls, t) ==
  [k \in Keys |-> IF ls[k] # NoStore /\ t - ls[k].storedAt > Expiry THEN NoStore ELSE ls[k]]

InitCache ==
  /\ cache = << >>
  /\ recency = << >>
  /\ lastOp = NoOp
  /\ lastSet = [k \in Keys |-> NoStore]

\* ------------------------------------------------------------------ RequestQueue (src/js/api.js)
Calls == 1..MaxCalls
IdleCall == [pc |-> "idle", wakeAt |-> -1, startAt |-> -1, endAt |-> -1]

InitThrottle ==
  /\ lastRequestTime = 0
  /\ tcall = [c \in Calls |-> IdleCall]
  /\ dispatched = << >>

\* ------------------------------------------------------------------ RequestQueue (src/js/pokedex.js)
Requests == 1..MaxReq

InitQueue ==
  /\ queue = << >>
  /\ processing = FALSE
  /\ lastRequest = 0
  /\ active = {}
  /\ timers = 0
  /\ enqueued = << >>
  /\ qdispatched = << >>
  /\ settled = [r \in Requests |-> "pending"]

\* ------------------------------------------------------------------ PokedexController (src/js/controller.js)
\* the arguments getPokemonData is called with: ids, and names as typed
Args == {"1", "2", "A"}
\* /^\d+$/.test(String(idOrName))
IsNumber(arg) == arg \in {"1", "2", "3"}
\* String.prototype.toLowerCase
ToLower(str) == IF str = "A" THEN "a" ELSE IF str = "C" THEN "c" ELSE str
\* const key = isNumber ? Number(idOrName) : `name_${idOrName.toLowerCase()}`
KeyOf(arg) == IF IsNumber(arg) THEN arg ELSE NameKey(ToLower(arg))
\* the entity the catalog service answers pokemon/<idOrName> with
EntityOf(arg) == IF IsNumber(arg) THEN arg
                 ELSE CHOOSE id \in Pokemon : NameOf(id) = ToLower(arg)
IdleData == [pc |-> "idle", net |-> "none", wakeAt |-> -1, arg |-> NoKey, sp |-> FALSE,
             evo |-> FALSE, reqs |-> 0, result |-> Null, error |-> "none"]

InitData ==
  /\ dcall = [c \in Calls |-> IdleData]
  /\ currentId = "1"
  /\ nameMap = {}

\* the constructor's state.searchTimeout, state.searchAbortController
Searches == 1..MaxSearches
InitSearch ==
  /\ searchTimeout = Null
  /\ searchAbortController = Null
  /\ search = [i \in Searches |-> "none"]
  /\ aborted = {}
  /\ signalOf = [c \in Calls |-> Null]
  /\ shownError = {}

\* ------------------------------------------------------------------ name list (src/js/controller.js, StorageHelper of src/js/api.js)
\* the value of a property that an object does not have
Undefined == "undefined"
\* this.config.storage
ConfigStorage == [nameListKey |-> "pokedex_name_list_v1",
                  nameListTsKey |-> "pokedex_name_list_ts_v1",
                  nameListTTL |-> ListTTL]
\* const { key, tsKey, ttl } = this.config.storage: each name is bound to
\* the property of that name
Field(obj, name) == IF name \in DOMAIN obj THEN obj[name] ELSE Undefined
\* localStorage turns a key into a string: String(undefined) is "undefined"
StorageKey == Field(ConfigStorage, "key")
TsKey(key) == key \o "_ts"
StorageKeys == {StorageKey, TsKey(StorageKey)}
\* a localStorage item: absent, a text that is neither JSON nor a number,
\* the JSON text of a list, or the decimal text of a number
Absent == [kind |-> "absent", val |-> << >>]
Garbage == [kind |-> "text", val |-> << >>]
\* JSON.stringify(list) / String(Date.now())
Stringify(list) == [kind |-> "list", val |-> list]
NumText(n) == [kind |-> "num", val |-> <<n>>]
\* the entries the catalog lists, in the order it lists them: { name, url }
\* with the id as the url's last segment
CatalogEntry(i) ==
  IF i = 1 THEN [name |-> "a", id |-> "1"]
  ELSE IF i = 2 THEN [name |-> "b", id |-> "2"]
  ELSE IF i = 3 THEN [name |-> "C", id |-> "3"]
  ELSE [name |-> "d", id |-> "4"]
Catalog(n) == [i \in 1..n |-> CatalogEntry(i)]
\* an element of a persisted list that is not a { name, id } object (null)
BadEntry == [name |-> NoKey, id |-> NoKey]
BadList(n) == [i \in 1..n |-> BadEntry]

\* new Map(list.map(p => [p.name.toLowerCase(), p.id])): the last entry of a name wins
MapOfList_NoLower(list) ==
  {<<list[i].name, list[i].id>> :
     i \in {j \in 1..Len(list) : \A k \in (j+1)..Len(list) : list[k].name # list[j].name}}
MapOfList(list) ==
  {<<ToLower(list[i].name), list[i].id>> :
     i \in {j \in 1..Len(list) :
              \A k \in (j+1)..Len(list) : ToLower(list[k].name) # ToLower(list[j].name)}}
\* Array.from(map.keys()): the names in the order they were first inserted
RECURSIVE KeysOfList(_, _)
KeysOfList(list, seen) ==
  IF list = << >> THEN << >>
  ELSE IF ToLower(Head(list).name) \in seen THEN KeysOfList(Tail(list), seen)
  ELSE <<ToLower(Head(list).name)>>
         \o KeysOfList(Tail(list), seen \cup {ToLower(Head(list).name)})

\* Date.now() - timestamp > ttl: a comparison with undefined is false
Exceeds(age, ttl) == IF ttl = Undefined THEN FALSE ELSE age > ttl
\* StorageHelper.loadFromStorage(key, ttl): null, or the parsed value
NoValue == [ok |-> FALSE, val |-> << >>]
LoadFromStorage(st, key, ttl, t) ==
  IF st[key].kind = "absent" \/ st[TsKey(key)].kind = "absent" THEN NoValue
  ELSE IF st[TsKey(key)].kind # "num" THEN NoValue
  ELSE IF Exceeds(t - st[TsKey(key)].val[1], ttl) THEN NoValue
  ELSE IF st[key].kind = "list" THEN [ok |-> TRUE, val |-> st[key].val]
  ELSE NoValue
\* StorageHelper.saveToStorage(key, data): both items are written, or a
\* setItem throws (quota) and the rest is skipped
SaveToStorage(st, key, data, t, quota) ==
  IF quota = "none" THEN st
  ELSE IF quota = "list" THEN [st EXCEPT ![key] = Stringify(data)]
  ELSE [st EXCEPT ![key] = Stringify(data), ![TsKey(key)] = NumText(t)]

IdleList == [pc |-> "idle", apiCount |-> 0, temp |-> << >>, tempMap |-> {},
             tempKeys |-> << >>, page |-> 0, reqs |-> 0]
NothingSaved == [valid |-> FALSE, list |-> << >>, map |-> {}, keys |-> << >>]

\* the constructor's list state; the catalog and the browser's storage
InitList ==
  /\ totalPokemon = 0
  /\ pokemonList = << >>
  /\ pokemonNameArray = << >>
  /\ storage = [k \in StorageKeys |-> Absent]
  /\ remoteCount = MaxRemote - 1
  /\ lcall = IdleList
  /\ saved = NothingSaved

\* no batch has been started
IdleBatch == [kind |-> "none", pc |-> "idle", ids |-> << >>, out |-> << >>]
InitBatch == batch = IdleBatch

\* new Cache(): an empty Map and an empty lruQueue
InitLru ==
  /\ lruCache = {}
  /\ lruQueue = << >>
  /\ lruTouched = << >>
  /\ lruShifted = << >>

\* isNavigating: false, and no call of navigatePokemon has been made
NavCalls == 1..MaxNav
IdleNav == [pc |-> "idle", direction |-> "none", target |-> NoKey]
InitNav ==
  /\ isNavigating = FALSE
  /\ nav = [c \in NavCalls |-> IdleNav]

\* the program runs the Cache of src/js/pokedex.js
InitLruVersion == lruVersion = "pokedex.js"

\* no call of _computeLevenshtein or _fuzzySearch has been made
NoString == << >>
IdleLev == [s1 |-> NoString, s2 |-> NoString, threshold |-> 0, out |-> -1]
IdleFuzzy == [names |-> << >>, query |-> NoString, done |-> FALSE, out |-> << >>]
InitFuzzy ==
  /\ lev = IdleLev
  /\ fz = IdleFuzzy

\* the state after construction, the matcher's calls apart
InitParts ==
  /\ now = StartTime
  /\ InitCache
  /\ InitThrottle
  /\ InitQueue
  /\ InitData
  /\ InitSearch
  /\ InitList
  /\ InitBatch
  /\ InitLru
  /\ InitNav

InitProgram ==
  /\ InitParts
  /\ InitLruVersion

Init ==
  /\ InitProgram
  /\ InitFuzzy

\* the clock advances
Tick ==
  /\ now < EndTime
  /\ now' = now + 1
  /\ lastOp' = NoOp
  /\ lastSet' = Lapse(lastSet, now + 1)
  /\ UNCHANGED <<restVars, cache, recency, throttleVars, queueVars, dataVars>>

DoSet(k, v) ==
  LET newc == CacheSet(cache, k, v, now) IN
  /\ cache' = newc
  /\ recency' = Touch(Present(recency, newc), k)
  /\ lastOp' = [op |-> "set", key |-> k, result |-> v, storedAt |-> now,
                evicted |-> EvictedBySet(cache, now)]
  /\ lastSet' = [x \in Keys |->
                  IF x = k THEN [value |-> v, storedAt |-> now]
                  ELSE IF x = EvictedBySet(cache, now) THEN NoStore
                  ELSE lastSet[x]]
  /\ UNCHANGED <<restVars, now, throttleVars, queueVars, dataVars>>

DoGet(k) ==
  LET newc == CacheAfterGet(cache, k, now)
      val == CacheGetValue(cache, k, now) IN
  /\ cache' = newc
  /\ recency' = IF val # Null THEN Touch(recency, k) ELSE Present(recency, newc)
  /\ lastOp' = [op |-> "get", key |-> k, result |-> val,
                storedAt |-> IF HasKey(cache, k) THEN EntryOf(cache, k).timestamp ELSE -1,
                evicted |-> NoKey]
  /\ UNCHANGED <<restVars, now, lastSet, throttleVars, queueVars, dataVars>>

DoHas(k) ==
  LET newc == CacheAfterGet(cache, k, now) IN
  /\ cache' = newc
  /\ recency' = Present(recency, newc)
  /\ lastOp' = [op |-> "has", key |-> k,
                result |-> IF CacheHasValue(cache, k, now) THEN 1 ELSE Null,
                storedAt |-> IF HasKey(cache, k) THEN EntryOf(cache, k).timestamp ELSE -1,
                evicted |-> NoKey]
  /\ UNCHANGED <<restVars, now, lastSet, throttleVars, queueVars, dataVars>>

DoClear ==
  /\ cache # << >>
  /\ cache' = << >>
  /\ recency' = << >>
  /\ lastOp' = [NoOp EXCEPT !.op = "clear"]
  /\ lastSet' = [k \in Keys |-> NoStore]
  /\ UNCHANGED <<restVars, now, throttleVars, queueVars, dataVars>>

NextCache ==
  \/ Tick
  \/ \E k \in CacheKeys : DoSet(k, ValueAt(now))
  \/ \E k \in CacheKeys : DoGet(k)
  \/ \E k \in CacheKeys : DoHas(k)
  \/ DoClear

SpecCache == Init /\ [][NextCache]_vars

\* ------------------------------------------------------------------ Cache with lruQueue (src/js/pokedex.js, src/unnamed/part_003)
LruVersions == {"pokedex.js", "part_003"}
LruKeys(m) == {e.key : e \in m}
LruEntry(m, k) == CHOOSE e \in m : e.key = k
\* this.cache.set(key, entry) / this.cache.delete(key)
LruPut(m, k, e) == {x \in m : x.key # k} \cup {e}
LruDelete(m, k) == {x \in m : x.key # k}
\* isExpired(entry): Date.now() - entry.timestamp > this.expiryTime
LruExpired(e, t) == t - e.timestamp > Expiry
\* updateLRU(key): take the key out of the queue and push it at the end
UpdateLRU_NoMove(q, k) == IF \E i \in 1..Len(q) : q[i] = k THEN q ELSE Append(q, k)
UpdateLRU(q, k) == Append(SelectSeq(q, LAMBDA x : x # k), k)
\* prune(): while (this.cache.size > this.maxSize) delete(this.lruQueue.shift())
RECURSIVE Prune(_, _)
Prune(m, q) ==
  IF Cardinality(m) > LruMaxSize /\ Len(q) > 0
    THEN LET p == Prune(LruDelete(m, Head(q)), Tail(q)) IN
         [p EXCEPT !.shifted = <<Head(q)>> \o p.shifted]
    ELSE [cache |-> m, queue |-> q, shifted |-> << >>]
\* what get does to the queue when it deletes an expired entry: nothing in
\* src/js/pokedex.js, the key is spliced out in src/unnamed/part_003
QueueAfterExpiry(ver, q, k) ==
  IF ver = "part_003" THEN SelectSeq(q, LAMBDA x : x # k) ELSE q

\* set(key, value)
LruSet(k, v) ==
  LET p == Prune(LruPut(lruCache, k, [key |-> k, value |-> v, timestamp |-> now]),
                 UpdateLRU(lruQueue, k)) IN
  /\ lruCache' = p.cache
  /\ lruQueue' = p.queue
  /\ lruShifted' = p.shifted
  /\ lruTouched' = SelectSeq(Touch(lruTouched, k), LAMBDA x : x \in LruKeys(p.cache))
  /\ UNCHANGED <<now, lruVersion, cacheVars, throttleVars, queueVars, navVars, dataVars,
                 searchVars, listVars, fuzzyVars, batchVars>>

\* get(key): null for an absent or expired entry, which is deleted; a hit
\* moves the key to the most-recent end
LruGet(k) ==
  /\ IF k \notin LruKeys(lruCache) THEN UNCHANGED <<lruCache, lruQueue, lruTouched>>
     ELSE IF LruExpired(LruEntry(lruCache, k), now)
       THEN /\ lruCache' = LruDelete(lruCache, k)
            /\ lruQueue' = QueueAfterExpiry(lruVersion, lruQueue, k)
            /\ lruTouched' = SelectSeq(lruTouched, LAMBDA x : x # k)
       ELSE /\ lruQueue' = UpdateLRU(lruQueue, k)
            /\ lruTouched' = Touch(lruTouched, k)
            /\ UNCHANGED lruCache
  /\ lruShifted' = << >>
  /\ UNCHANGED <<now, lruVersion, cacheVars, throttleVars, queueVars, navVars, dataVars,
                 searchVars, listVars, fuzzyVars, batchVars>>

InitLruCache ==
  /\ InitParts
  /\ InitFuzzy
  /\ lruVersion \in LruVersions

NextLru ==
  \/ Tick
  \/ \E k \in CacheKeys : LruSet(k, ValueAt(now))
  \/ \E k \in CacheKeys : LruGet(k)

SpecLru == InitLruCache /\ [][NextLru]_vars

\* ------------------------------------------------------------------ RequestQueue.enqueue (src/js/api.js)
\* const delay = Math.max(0, this.lastRequestTime + this.minInterval - now)
Delay(last, t) == IF last + MinInterval - t > 0 THEN last + MinInterval - t ELSE 0

\* enqueue up to its first await: the timer when delay > 0, else the fetch
Enqueue(c) ==
  /\ tcall[c].pc = "idle"
  /\ IF Delay(lastRequestTime, now) > 0
       THEN /\ tcall' = [tcall EXCEPT ![c].pc = "sleeping",
                                      ![c].wakeAt = now + Delay(lastRequestTime, now)]
            /\ UNCHANGED dispatched
       ELSE /\ tcall' = [tcall EXCEPT ![c].pc = "fetching", ![c].startAt = now]
            /\ dispatched' = Append(dispatched, c)
  /\ UNCHANGED <<restVars, now, lastRequestTime, cacheVars, queueVars, dataVars>>

\* the setTimeout(resolve, delay) of enqueue fires; the fetch starts
Wake(c) ==
  /\ tcall[c].pc = "sleeping"
  /\ now >= tcall[c].wakeAt
  /\ tcall' = [tcall EXCEPT ![c].pc = "fetching", ![c].startAt = now]
  /\ dispatched' = Append(dispatched, c)
  /\ UNCHANGED <<restVars, now, lastRequestTime, cacheVars, queueVars, dataVars>>

\* the fetch settles with a 2xx response: lastRequestTime is recorded, and
\* this instant is taken as the request's completion
RespondOk(c) ==
  /\ tcall[c].pc = "fetching"
  /\ lastRequestTime' = now
  /\ tcall' = [tcall EXCEPT ![c].pc = "json", ![c].endAt = now]
  /\ UNCHANGED <<restVars, now, dispatched, cacheVars, queueVars, dataVars>>

\* the fetch rejects, or the response is not ok: enqueue throws and
\* lastRequestTime keeps its value
RespondFail(c) ==
  /\ tcall[c].pc = "fetching"
  /\ tcall' = [tcall EXCEPT ![c].pc = "rejected", ![c].endAt = now]
  /\ UNCHANGED <<restVars, now, lastRequestTime, dispatched, cacheVars, queueVars, dataVars>>

\* await response.json() settles
JsonDone(c, ok) ==
  /\ tcall[c].pc = "json"
  /\ tcall' = [tcall EXCEPT ![c].pc = IF ok THEN "resolved" ELSE "rejected"]
  /\ UNCHANGED <<restVars, now, lastRequestTime, dispatched, cacheVars, queueVars, dataVars>>

NextThrottle ==
  \/ Tick
  \/ \E c \in Calls : Enqueue(c)
  \/ \E c \in Calls : Wake(c)
  \/ \E c \in Calls : RespondOk(c)
  \/ \E c \in Calls : RespondFail(c)
  \/ \E c \in Calls, ok \in BOOLEAN : JsonDone(c, ok)

SpecThrottle == Init /\ [][NextThrottle]_vars

InFlight == {c \in Calls : tcall[c].pc = "fetching"}

\* ------------------------------------------------------------------ RequestQueue.enqueue / process (src/js/pokedex.js)
\* const request = this.queue.shift()
NextItem_Last(q) == q[Len(q)]
NextItem(q) == Head(q)

\* finally { setTimeout(() => this.process(), 0) }: one more pending callback,
\* whether the request succeeded or failed
TimersAfter_TryOnly(t, ok) == IF ok THEN t + 1 ELSE t
TimersAfter_Never(t, ok) == t
TimersAfter(t, ok) == t + 1

\* const wait = Math.max(0, this.lastRequest + this.minInterval - now)
QWait_None(last, t) == 0
QWait(last, t) == IF last + MinInterval - t > 0 THEN last + MinInterval - t ELSE 0

\* process() from its entry to its first await, on the queue q
Process(q) ==
  IF Len(q) = 0
    THEN /\ processing' = FALSE
         /\ queue' = q
         /\ UNCHANGED <<active, qdispatched>>
    ELSE /\ processing' = TRUE
         /\ queue' = Tail(q)
         /\ IF QWait(lastRequest, now) > 0
              THEN /\ active' = active \cup {[item |-> NextItem(q), pc |-> "waiting",
                                              wakeAt |-> now + QWait(lastRequest, now)]}
                   /\ UNCHANGED qdispatched
              ELSE /\ active' = active \cup {[item |-> NextItem(q), pc |-> "fetching",
                                              wakeAt |-> -1]}
                   /\ qdispatched' = Append(qdispatched, NextItem(q))

\* enqueue(url): push, and start process() unless a drain is in progress
QEnqueue(r) ==
  /\ \A i \in 1..Len(enqueued) : enqueued[i] # r
  /\ enqueued' = Append(enqueued, r)
  /\ IF ~processing
       THEN Process(Append(queue, r))
       ELSE /\ queue' = Append(queue, r)
            /\ UNCHANGED <<processing, active, qdispatched>>
  /\ UNCHANGED <<restVars, now, lastRequest, timers, settled, cacheVars, throttleVars, dataVars>>

\* a setTimeout(() => this.process(), 0) callback runs
QTimerFire ==
  /\ timers > 0
  /\ timers' = timers - 1
  /\ Process(queue)
  /\ UNCHANGED <<restVars, now, lastRequest, enqueued, settled, cacheVars, throttleVars, dataVars>>

\* the setTimeout(r, wait) of process fires; the fetch starts
QWake(a) ==
  /\ a.pc = "waiting"
  /\ now >= a.wakeAt
  /\ active' = (active \ {a}) \cup {[a EXCEPT !.pc = "fetching"]}
  /\ qdispatched' = Append(qdispatched, a.item)
  /\ UNCHANGED <<restVars, now, queue, processing, lastRequest, timers, enqueued, settled,
                 cacheVars, throttleVars, dataVars>>

\* the fetch resolves with a 2xx response; process awaits response.json()
QRespondOk(a) ==
  /\ a.pc = "fetching"
  /\ active' = (active \ {a}) \cup {[a EXCEPT !.pc = "json"]}
  /\ UNCHANGED <<restVars, now, queue, processing, lastRequest, timers, enqueued, qdispatched,
                 settled, cacheVars, throttleVars, dataVars>>

\* the fetch rejects ("neterr") or the response is not ok ("http"):
\* catch rejects the caller, finally schedules the next process()
QRespondFail(a, why) ==
  /\ a.pc = "fetching"
  /\ settled' = [settled EXCEPT ![a.item] = why]
  /\ lastRequest' = now
  /\ timers' = TimersAfter(timers, FALSE)
  /\ active' = active \ {a}
  /\ UNCHANGED <<restVars, now, queue, processing, enqueued, qdispatched, cacheVars, throttleVars, dataVars>>

\* response.json() settles: resolve the caller ("resolved") or reject it
\* ("parse"); finally schedules the next process()
QJsonDone(a, how) ==
  /\ a.pc = "json"
  /\ settled' = [settled EXCEPT ![a.item] = how]
  /\ lastRequest' = now
  /\ timers' = TimersAfter(timers, how = "resolved")
  /\ active' = active \ {a}
  /\ UNCHANGED <<restVars, now, queue, processing, enqueued, qdispatched, cacheVars, throttleVars, dataVars>>

NextQueue ==
  \/ Tick
  \/ \E r \in Requests : QEnqueue(r)
  \/ QTimerFire
  \/ \E a \in active : QWake(a)
  \/ \E a \in active : QRespondOk(a)
  \/ \E a \in active, why \in {"http", "neterr"} : QRespondFail(a, why)
  \/ \E a \in active, how \in {"resolved", "parse"} : QJsonDone(a, how)

SpecQueue == Init /\ [][NextQueue]_vars

\* the clock advances past the horizon: the times the queue holds are kept
\* relative to now, which is all that wait and the wake-up compare
QClockBeyond ==
  /\ now = EndTime
  /\ \/ lastRequest + MinInterval > now
     \/ \E a \in active : a.pc = "waiting" /\ a.wakeAt > now
  /\ lastRequest' = IF lastRequest + MinInterval > now THEN lastRequest - 1 ELSE lastRequest
  /\ active' = {IF a.pc = "waiting" /\ a.wakeAt > now THEN [a EXCEPT !.wakeAt = a.wakeAt - 1]
                 ELSE a : a \in active}
  /\ UNCHANGED <<restVars, now, queue, processing, timers, enqueued, qdispatched, settled,
                 cacheVars, throttleVars, dataVars>>

NextQueueLive ==
  \/ NextQueue
  \/ QClockBeyond

\* the host runs every timer callback that is due, time passes, and every
\* fetch and every response.json() settles
QueueFairness ==
  /\ WF_vars(Tick \/ QClockBeyond)
  /\ WF_vars(QTimerFire)
  /\ WF_vars(\E a \in active : QWake(a))
  /\ WF_vars(\E a \in active : QRespondOk(a) \/ QRespondFail(a, "neterr"))
  /\ WF_vars(\E a \in active, how \in {"resolved", "parse"} : QJsonDone(a, how))

SpecQueueLive == Init /\ [][NextQueueLive]_vars /\ QueueFairness

Failed(r) == settled[r] \in {"http", "neterr", "parse"}

\* ------------------------------------------------------------------ getPokemonData (src/js/controller.js)
\* the object a call's pokemon/<idOrName> response is parsed into is the
\* call's own: object c is the data of call c, and data.id is its entity
ObjIdIn(calls, o) == EntityOf(calls[o].arg)
ObjId(o) == ObjIdIn(dcall, o)
InFlightData(c) == dcall[c].pc \in {"base", "species", "evolution"}

\* this.api.fetchData -> this.requestQueue.enqueue, up to its first await
Request(d, stage) ==
  [d EXCEPT !.pc = stage,
            !.reqs = d.reqs + 1,
            !.net = IF Delay(lastRequestTime, now) > 0 THEN "sleeping" ELSE "fetching",
            !.wakeAt = IF Delay(lastRequestTime, now) > 0
                         THEN now + Delay(lastRequestTime, now) ELSE -1]

\* this.state.pokemonCache.set(data.id, data);
\* this.state.pokemonCache.set(`name_${data.name.toLowerCase()}`, data)
CacheComposite_NameOnly(c0, id, o, t) == CacheSet(c0, NameKey(ToLower(NameOf(id))), o, t)
CacheComposite(c0, id, o, t) ==
  CacheSet(CacheSet(c0, id, o, t), NameKey(ToLower(NameOf(id))), o, t)

\* catch (err) { ...; throw err }: the cache is not written
CacheAfterCatch_Partial(c0, id, o, t) == CacheComposite(c0, id, o, t)
CacheAfterCatch(c0, id, o, t) == c0

\* the composite is assembled: cache it under both keys, record the name, return it
Finish(c, d) ==
  /\ cache' = CacheComposite(cache, EntityOf(d.arg), c, now)
  /\ nameMap' = nameMap \cup {<<ToLower(NameOf(EntityOf(d.arg))), EntityOf(d.arg)>>}
  /\ dcall' = [dcall EXCEPT ![c] = [d EXCEPT !.pc = "done", !.net = "none",
                                             !.wakeAt = -1, !.result = c]]

\* getPokemonData(idOrName) up to its first await: the cache lookup and,
\* on a miss, the request for the base record
DStart(c, arg) ==
  /\ dcall[c].pc = "idle"
  /\ \A b \in Calls : b < c => dcall[b].pc # "idle"   \* calls are numbered as they are made
  /\ cache' = CacheAfterGet(cache, KeyOf(arg), now)
  /\ IF CacheGetValue(cache, KeyOf(arg), now) # Null
       THEN /\ dcall' = [dcall EXCEPT ![c] = [IdleData EXCEPT !.pc = "done", !.arg = arg,
                           !.result = CacheGetValue(cache, KeyOf(arg), now)]]
            /\ currentId' = IF IsNumber(arg) THEN currentId
                            ELSE ObjId(CacheGetValue(cache, KeyOf(arg), now))
       ELSE /\ dcall' = [dcall EXCEPT ![c] = Request([IdleData EXCEPT !.arg = arg], "base")]
            /\ UNCHANGED currentId
  /\ UNCHANGED <<restVars, now, recency, lastOp, lastSet, throttleVars, queueVars, nameMap>>

\* the setTimeout(resolve, delay) of enqueue fires; the fetch starts
DWake(c) ==
  /\ dcall[c].net = "sleeping"
  /\ now >= dcall[c].wakeAt
  /\ dcall' = [dcall EXCEPT ![c].net = "fetching", ![c].wakeAt = -1]
  /\ UNCHANGED <<restVars, now, cacheVars, throttleVars, queueVars, currentId, nameMap>>

\* the fetch resolves with a 2xx response; enqueue awaits response.json()
DRespondOk(c) ==
  /\ dcall[c].net = "fetching"
  /\ lastRequestTime' = now
  /\ dcall' = [dcall EXCEPT ![c].net = "json"]
  /\ UNCHANGED <<restVars, now, cacheVars, tcall, dispatched, queueVars, currentId, nameMap>>

\* the fetch rejects or the response is not ok ("error"), the fetch is
\* aborted ("abort") or the body does not parse ("parse"): enqueue, fetchData
\* and getPokemonData rethrow the error
DFail(c, why) ==
  /\ \/ dcall[c].net = "fetching" /\ why \in {"error", "abort"}
     \/ dcall[c].net = "json" /\ why = "parse"
  /\ cache' = CacheAfterCatch(cache, EntityOf(dcall[c].arg), c, now)
  /\ dcall' = [dcall EXCEPT ![c].pc = "failed", ![c].net = "none", ![c].error = why]
  /\ UNCHANGED <<restVars, now, recency, lastOp, lastSet, throttleVars, queueVars, currentId, nameMap>>

\* the species is requested whether or not the base record refers to one
DBaseOk_AlwaysSpecies(c, hasSpecies) ==
  /\ dcall[c].pc = "base" /\ dcall[c].net = "json"
  /\ dcall' = [dcall EXCEPT ![c] = Request(dcall[c], "species")]
  /\ UNCHANGED <<restVars, now, cacheVars, throttleVars, queueVars, currentId, nameMap>>
\* the base record arrives; with a species reference the species is requested
DBaseOk(c, hasSpecies) ==
  /\ dcall[c].pc = "base" /\ dcall[c].net = "json"
  /\ IF hasSpecies
       THEN /\ dcall' = [dcall EXCEPT ![c] = Request(dcall[c], "species")]
            /\ UNCHANGED <<cache, nameMap>>
       ELSE Finish(c, dcall[c])
  /\ UNCHANGED <<restVars, now, recency, lastOp, lastSet, throttleVars, queueVars, currentId>>

\* the species metadata arrives; with an evolution-chain reference the chain
\* is requested
DSpeciesOk(c, hasChain) ==
  /\ dcall[c].pc = "species" /\ dcall[c].net = "json"
  /\ IF hasChain
       THEN /\ dcall' = [dcall EXCEPT ![c] = Request([dcall[c] EXCEPT !.sp = TRUE], "evolution")]
            /\ UNCHANGED <<cache, nameMap>>
       ELSE Finish(c, [dcall[c] EXCEPT !.sp = TRUE])
  /\ UNCHANGED <<restVars, now, recency, lastOp, lastSet, throttleVars, queueVars, currentId>>

\* the evolution chain arrives
DEvolutionOk(c) ==
  /\ dcall[c].pc = "evolution" /\ dcall[c].net = "json"
  /\ Finish(c, [dcall[c] EXCEPT !.evo = TRUE])
  /\ UNCHANGED <<restVars, now, recency, lastOp, lastSet, throttleVars, queueVars, currentId>>

NextData ==
  \/ Tick
  \/ \E c \in Calls, arg \in Args : DStart(c, arg)
  \/ \E c \in Calls : DWake(c)
  \/ \E c \in Calls : DRespondOk(c)
  \/ \E c \in Calls, why \in {"error", "abort", "parse"} : DFail(c, why)
  \/ \E c \in Calls, hasSpecies \in BOOLEAN : DBaseOk(c, hasSpecies)
  \/ \E c \in Calls, hasChain \in BOOLEAN : DSpeciesOk(c, hasChain)
  \/ \E c \in Calls : DEvolutionOk(c)

SpecData == Init /\ [][NextData]_vars

\* ------------------------------------------------------------------ claims: Cache

\* C1: with maxSize >= 1, after every set, get or has the number of stored
\* entries is at most maxSize.
C1_SizeBounded == Len(cache) <= MaxSize
\* a set into a full cache of unexpired entries has just made room
C1_Witness == lastOp.op = "set" /\ lastOp.evicted # NoKey /\ Len(cache) = MaxSize

\* C2: whenever set removes an unexpired entry to make room, the removed key
\* is the one whose most recent set or get-hit is the oldest among the keys
\* present (strict LRU).
C2_StrictLRU ==
  [][(lastOp'.op = "set" /\ lastOp'.evicted # NoKey)
       => lastOp'.evicted = LeastRecentKey(CleanupExpired(cache, now), recency)]_vars

\* C3 as stated: get returns absent whenever now >= storedAt + expiry.
C3_AbsentAtExpiry ==
  (lastOp.op = "get" /\ lastOp.storedAt >= 0 /\ now >= lastOp.storedAt + Expiry)
    => lastOp.result = Null
\* C3 as amended: get returns absent whenever now > storedAt + expiry, and
\* returns the stored value only while now <= storedAt + expiry.
C3_AbsentPastExpiry ==
  (lastOp.op = "get" /\ lastOp.storedAt >= 0 /\ now > lastOp.storedAt + Expiry)
    => (lastOp.result = Null /\ ~HasKey(cache, lastOp.key))
\* a get that found an entry past its expiry, after another key was set
C3_Witness ==
  /\ lastOp.op = "get" /\ lastOp.storedAt >= 0
  /\ now > lastOp.storedAt + Expiry
  /\ lastOp.result = Null
  /\ Len(cache) > 0

\* ------------------------------------------------------------------ claims: RequestQueue (src/js/api.js)

\* C4: under any interleaving of concurrent enqueue calls, at most one fetch
\* is in flight at a time.
C4_OneInFlight == Cardinality(InFlight) <= 1

\* C5: for any two consecutively dispatched requests, whether the earlier one
\* succeeded or failed, the later fetch starts no earlier than minInterval
\* after the earlier one completed.
C5_Spacing ==
  \A i \in 1..(Len(dispatched) - 1) :
    tcall[dispatched[i]].endAt >= 0
      => tcall[dispatched[i + 1]].startAt >= tcall[dispatched[i]].endAt + MinInterval

\* ------------------------------------------------------------------ claims: RequestQueue (src/js/pokedex.js)

\* C6: requests are dispatched to the network in exactly the order in which
\* enqueue was called, for any interleaving of enqueue calls with completions.
C6_FifoDispatch ==
  /\ Len(qdispatched) <= Len(enqueued)
  /\ \A i \in 1..Len(qdispatched) : qdispatched[i] = enqueued[i]
\* every request was dispatched, the last one enqueued after the first had
\* settled and in an order that is not the order of the identifiers
C6_Witness ==
  /\ Len(qdispatched) = MaxReq
  /\ enqueued[1] # 1
  /\ settled[enqueued[1]] # "pending"
  /\ Len(queue) = 0

\* C7: when a dispatched request fails, only that caller's promise is
\* rejected: the outcome of no other request changes, the requests queued
\* behind it stay queued and the drain goes on (the next process() is
\* scheduled, so a non-empty queue always has a drain that will take it).
C7_FailureIsolated ==
  [][\A r \in Requests :
       (settled[r] = "pending" /\ Failed(r)')
         => /\ \A o \in Requests \ {r} : settled'[o] = settled[o]
            /\ queue' = queue
            /\ processing'
            /\ timers' = timers + 1
            /\ (Len(queue') > 0 => (active' # {} \/ timers' > 0))]_vars
\* a request failed and one enqueued behind it was dispatched and resolved
C7_Witness ==
  \E r, o \in Requests :
    /\ Failed(r)
    /\ settled[o] = "resolved"
    /\ \E i, j \in 1..Len(enqueued) : i < j /\ enqueued[i] = r /\ enqueued[j] = o

\* ------------------------------------------------------------------ claims: getPokemonData
HasFresh(c0, k, t) == HasKey(c0, k) /\ ~IsExpired(EntryOf(c0, k), t)
ByName(c) == ~IsNumber(dcall[c].arg)
Completes(c) == dcall[c].pc # "done" /\ dcall'[c].pc = "done"
Fails(c) == dcall[c].pc # "failed" /\ dcall'[c].pc = "failed"
SameKey(c, d) == KeyOf(dcall[c].arg) = KeyOf(dcall[d].arg)

\* C8: after resolving an entity by name, resolving it by the returned
\* numeric id returns the identical cached object and enqueues no network
\* request, as long as the entry is neither expired nor evicted: a resolution
\* by name that fetched leaves its object under the numeric id unless the
\* second set evicted that key, one that hit the cache finds the same object
\* under the numeric id when that key is present and unexpired, and a
\* resolution by an id whose entry is present and unexpired returns the
\* entry's object without a request.
C8_NameThenId ==
  [][\A c \in Calls :
       /\ (Completes(c) /\ ByName(c)' /\ InFlightData(c)
             /\ EvictedBySet(CacheSet(cache, ObjId(c), c, now), now) # ObjId(c))
            => CacheGetValue(cache', ObjId(c), now) = dcall'[c].result
       /\ (Completes(c) /\ ByName(c)' /\ dcall[c].pc = "idle"
             /\ HasFresh(cache', ObjIdIn(dcall', dcall'[c].result), now))
            => CacheGetValue(cache', ObjIdIn(dcall', dcall'[c].result), now) = dcall'[c].result
       /\ \A id \in Pokemon :
            (dcall[c].pc = "idle" /\ dcall'[c].arg = id /\ HasFresh(cache, id, now))
              => /\ dcall'[c].pc = "done"
                 /\ dcall'[c].reqs = 0
                 /\ dcall'[c].result = EntryOf(cache, id).value]_vars
\* a resolution by name fetched the entity, and the resolution by the id it
\* returned was answered from the cache with the same object
C8_Witness ==
  \E c, d \in Calls :
    /\ c < d
    /\ dcall[c].pc = "done" /\ ByName(c) /\ dcall[c].reqs > 0
    /\ dcall[d].pc = "done" /\ dcall[d].arg = ObjId(dcall[c].result)
    /\ dcall[d].result = dcall[c].result
    /\ dcall[d].reqs = 0

\* C9 as stated: when a request of the call fails, the cache afterwards holds
\* no entry for that entity under its numeric id or under its name key.
C9_NoEntryAfterFailure ==
  [][\A c \in Calls :
       Fails(c) => /\ ~HasKey(cache', EntityOf(dcall[c].arg))
                   /\ ~HasKey(cache', NameKey(NameOf(EntityOf(dcall[c].arg))))]_vars
\* C9 as amended: when the base, species or evolution-chain request fails,
\* the call rejects with the error and writes nothing: the cache and the name
\* map are left as they were (no partial composite is cached).
C9_FailureWritesNothing ==
  [][\A c \in Calls :
       Fails(c) => /\ cache' = cache
                   /\ nameMap' = nameMap
                   /\ dcall'[c].error # "none"
                   /\ dcall'[c].result = Null]_vars
\* a call failed at its evolution-chain request and none of the keys of its
\* entity is cached
C9_Witness ==
  \E c \in Calls :
    /\ dcall[c].pc = "failed" /\ dcall[c].reqs = 3
    /\ ~HasKey(cache, EntityOf(dcall[c].arg))
    /\ ~HasKey(cache, NameKey(NameOf(EntityOf(dcall[c].arg))))

\* C10: two getPokemonData calls for the same uncached key that overlap in
\* time each miss the cache and each enqueue their own requests; both write
\* the same cache key and the value written last is the one that remains.
C10_OverlapLastWriteWins ==
  [][\A c, d \in Calls :
       (c # d /\ SameKey(c, d)' /\ InFlightData(d))
         => /\ (dcall[c].pc = "idle" /\ ~HasFresh(cache, KeyOf(dcall'[c].arg), now))
                 => (dcall'[c].pc = "base" /\ dcall'[c].reqs = 1 /\ dcall'[d] = dcall[d])
            /\ (Completes(d) /\ dcall[c].pc = "done" /\ dcall[c].reqs > 0)
                 => /\ CacheGetValue(cache', NameKey(NameOf(ObjId(d))), now) = d
                    /\ (EvictedBySet(CacheSet(cache, ObjId(d), d, now), now) # ObjId(d)
                          => CacheGetValue(cache', ObjId(d), now) = d)]_vars
\* both overlapping calls fetched and wrote; the cache holds the object of the
\* one that completed last
C10_Witness ==
  \E c, d \in Calls :
    /\ c # d /\ SameKey(c, d)
    /\ dcall[c].pc = "done" /\ dcall[c].result = c /\ dcall[c].reqs > 0
    /\ dcall[d].pc = "done" /\ dcall[d].result = d /\ dcall[d].reqs > 0
    /\ CacheGetValue(cache, KeyOf(dcall[d].arg), now) = d

\* ------------------------------------------------------------------ loadPokemonList (src/js/controller.js)
\* the Pokedex is closed while the list loads, so no starter is fetched; the
\* catalog does not change while a load is under way, and the wait of the
\* throttle before each request is left to the throttle's specification.
Loading == lcall.pc \in {"count", "page", "yield"}
\* pokemon?limit=PAGE_SIZE&offset=(k-1)*PAGE_SIZE: the results and whether next is set
PageResults(k, count) ==
  [i \in 1..(IF k * PageSize <= count THEN PageSize
             ELSE IF (k - 1) * PageSize >= count THEN 0
             ELSE count - (k - 1) * PageSize) |-> CatalogEntry((k - 1) * PageSize + i)]
HasNext_Always(k, count) == TRUE
HasNext(k, count) == k * PageSize < count
\* tempNameMap.set(name, id) and the position of its key
MapPut(m, name, id) == {q \in m : q[1] # name} \cup {<<name, id>>}
KeysPut(keys, name) ==
  IF \E i \in 1..Len(keys) : keys[i] = name THEN keys ELSE Append(keys, name)
\* for (const result of data.results) { tempList.push(...); tempNameMap.set(...) }
RECURSIVE AddResults(_, _)
AddResults(l, results) ==
  IF results = << >> THEN l
  ELSE AddResults([l EXCEPT !.temp = Append(l.temp, Head(results)),
                            !.tempMap = MapPut(l.tempMap, ToLower(Head(results).name),
                                               Head(results).id),
                            !.tempKeys = KeysPut(l.tempKeys, ToLower(Head(results).name))],
                  Tail(results))
\* catch (err) { ... }: "State remains unchanged if error occurs during loading"
ListAfterFailure_Partial(prev, temp) == temp
ListAfterFailure(prev, temp) == prev

\* loadPokemonList(): the count request is sent
ListStart ==
  /\ lcall.pc = "idle"
  /\ lcall' = [IdleList EXCEPT !.pc = "count", !.reqs = 1]
  /\ UNCHANGED <<now, cacheVars, throttleVars, queueVars, navVars, lruVars, batchVars, dataVars, searchVars, fuzzyVars,
                 totalPokemon, pokemonList, pokemonNameArray, storage, remoteCount, saved>>

\* the count arrives: the persisted list is read and adopted when its length
\* is the count; otherwise the first page is requested.  persisted.map throws
\* on an element that is not an object, after pokemonList was assigned.
ListCountOk ==
  LET persisted == LoadFromStorage(storage, StorageKey, Field(ConfigStorage, "ttl"), now)
      apiCount == remoteCount
  IN
  /\ lcall.pc = "count"
  /\ lastRequestTime' = now
  /\ IF persisted.ok /\ Len(persisted.val) = apiCount
       THEN /\ pokemonList' = persisted.val
            /\ IF \E i \in 1..Len(persisted.val) : persisted.val[i] = BadEntry
                 THEN /\ lcall' = [lcall EXCEPT !.pc = "threw", !.apiCount = apiCount]
                      /\ UNCHANGED <<nameMap, pokemonNameArray, totalPokemon>>
                 ELSE /\ nameMap' = MapOfList(persisted.val)
                      /\ pokemonNameArray' = KeysOfList(persisted.val, {})
                      /\ totalPokemon' = apiCount
                      /\ lcall' = [lcall EXCEPT !.pc = "done", !.apiCount = apiCount]
       ELSE /\ lcall' = [lcall EXCEPT !.pc = "page", !.apiCount = apiCount, !.page = 1,
                                      !.reqs = lcall.reqs + 1]
            /\ UNCHANGED <<pokemonList, nameMap, pokemonNameArray, totalPokemon>>
  /\ UNCHANGED <<now, cacheVars, tcall, dispatched, queueVars, navVars, lruVars, batchVars, dcall, currentId, searchVars, fuzzyVars,
                 storage, remoteCount, saved>>

\* the count request fails: loadPokemonList rejects
ListCountFail ==
  /\ lcall.pc = "count"
  /\ lcall' = [lcall EXCEPT !.pc = "rejected"]
  /\ UNCHANGED <<now, cacheVars, throttleVars, queueVars, navVars, lruVars, batchVars, dataVars, searchVars, fuzzyVars,
                 totalPokemon, pokemonList, pokemonNameArray, storage, remoteCount, saved>>

\* after a page and its yield: the next page is requested, or the list
\* state is replaced and the list persisted
AfterPage(l, quota) ==
  IF HasNext(l.page, remoteCount)
    THEN /\ lcall' = [l EXCEPT !.pc = "page", !.page = l.page + 1, !.reqs = l.reqs + 1]
         /\ UNCHANGED <<pokemonList, nameMap, pokemonNameArray, totalPokemon, storage, saved>>
    ELSE /\ pokemonList' = l.temp
         /\ nameMap' = l.tempMap
         /\ pokemonNameArray' = l.tempKeys
         /\ totalPokemon' = Len(l.temp)
         /\ storage' = SaveToStorage(storage, StorageKey, l.temp, now, quota)
         /\ saved' = IF quota = "none" THEN saved
                     ELSE [valid |-> TRUE, list |-> l.temp, map |-> l.tempMap,
                           keys |-> l.tempKeys]
         /\ lcall' = [l EXCEPT !.pc = "done"]

\* a page arrives: its results are accumulated; yieldToMain() when it had any
ListPageOk(quota) ==
  /\ lcall.pc = "page"
  /\ lastRequestTime' = now
  /\ IF PageResults(lcall.page, remoteCount) # << >>
       THEN /\ lcall' = [AddResults(lcall, PageResults(lcall.page, remoteCount))
                           EXCEPT !.pc = "yield"]
            /\ UNCHANGED <<pokemonList, nameMap, pokemonNameArray, totalPokemon, storage, saved>>
       ELSE AfterPage(lcall, quota)
  /\ UNCHANGED <<now, cacheVars, tcall, dispatched, queueVars, navVars, lruVars, batchVars, dcall, currentId, searchVars, fuzzyVars,
                 remoteCount>>

\* the setTimeout(resolve, 0) of yieldToMain fires
ListYield(quota) ==
  /\ lcall.pc = "yield"
  /\ AfterPage(lcall, quota)
  /\ UNCHANGED <<now, cacheVars, throttleVars, queueVars, navVars, lruVars, batchVars, dcall, currentId, searchVars, fuzzyVars,
                 remoteCount>>

\* a page request fails: the catch shows the error and the load ends
ListPageFail ==
  /\ lcall.pc = "page"
  /\ pokemonList' = ListAfterFailure(pokemonList, lcall.temp)
  /\ lcall' = [lcall EXCEPT !.pc = "failed"]
  /\ UNCHANGED <<now, cacheVars, throttleVars, queueVars, navVars, lruVars, batchVars, dataVars, searchVars, fuzzyVars,
                 totalPokemon, pokemonNameArray, storage, remoteCount, saved>>

\* the page is loaded again: the constructor runs, localStorage is kept
NewSession ==
  /\ lcall.pc \in {"done", "failed", "rejected", "threw"}
  /\ lcall' = IdleList
  /\ pokemonList' = << >>
  /\ nameMap' = {}
  /\ pokemonNameArray' = << >>
  /\ totalPokemon' = 0
  /\ UNCHANGED <<now, cacheVars, throttleVars, queueVars, navVars, lruVars, batchVars, dcall, currentId, searchVars, fuzzyVars,
                 storage, remoteCount, saved>>

\* the catalog gains an entry
RemoteGrow ==
  /\ ~Loading
  /\ remoteCount < MaxRemote
  /\ remoteCount' = remoteCount + 1
  /\ UNCHANGED <<now, cacheVars, throttleVars, queueVars, navVars, lruVars, batchVars, dataVars, searchVars, fuzzyVars,
                 totalPokemon, pokemonList, pokemonNameArray, storage, lcall, saved>>

\* what something other than saveToStorage may leave in an item: nothing,
\* a text that does not parse, a list whose elements are null
TamperedItems(k) ==
  IF k = StorageKey THEN {Absent, Garbage} \cup {Stringify(BadList(n)) : n \in 1..MaxRemote}
  ELSE {Absent, Garbage}
\* between sessions an item is removed or damaged
StorageTamper(k, item) ==
  /\ lcall.pc = "idle"
  /\ storage[k] # item
  /\ storage' = [storage EXCEPT ![k] = item]
  /\ UNCHANGED <<now, cacheVars, throttleVars, queueVars, navVars, lruVars, batchVars, dataVars, searchVars, fuzzyVars,
                 totalPokemon, pokemonList, pokemonNameArray, remoteCount, lcall, saved>>

NextList ==
  \/ Tick
  \/ ListStart
  \/ ListCountOk
  \/ ListCountFail
  \/ \E quota \in {"all", "list", "none"} : ListPageOk(quota)
  \/ \E quota \in {"all", "list", "none"} : ListYield(quota)
  \/ ListPageFail
  \/ NewSession
  \/ RemoteGrow
  \/ \E k \in StorageKeys : \E item \in TamperedItems(k) : StorageTamper(k, item)

SpecList == Init /\ [][NextList]_vars

\* ------------------------------------------------------------------ scheduleSearch (src/js/controller.js)
\* the search box contents _performSearch reads: empty, an id in range, an
\* id out of range and a name of the index as typed (inputs that
\* _performSearch answers without rendering suggestions)
SearchInputs == {"", "1", "3", "A"}
\* parseInt(query, 10)
IdNum(str) == IF str = "1" THEN 1 ELSE IF str = "2" THEN 2 ELSE 3
\* this.state.pokemonNameMap.get(query)
NameMapGet(m, name) ==
  IF \E p \in m : p[1] = name THEN (CHOOSE p \in m : p[1] = name)[2] ELSE NoKey
\* the id _performSearch hands to fetchPokemonById, or NoKey when it fetches nothing
SearchTarget(raw, m, total) ==
  IF raw = "" THEN NoKey
  ELSE IF IsNumber(ToLower(raw))
    THEN IF IdNum(ToLower(raw)) >= 1 /\ IdNum(ToLower(raw)) <= total THEN ToLower(raw) ELSE NoKey
    ELSE NameMapGet(m, ToLower(raw))
\* fetch(url, options): a fetch given options.signal is rejected with an
\* AbortError once the signal's controller has aborted
AbortsFetch_NoSignal(sig, ab) == FALSE
AbortsFetch(sig, ab) == sig # Null /\ sig \in ab

\* the list is loaded (names a, b with ids 1, 2) and nothing is cached: the
\* state after loadPokemonList when no starter was fetched
InitLoaded ==
  /\ now = StartTime
  /\ InitCache
  /\ InitThrottle
  /\ InitQueue
  /\ dcall = [c \in Calls |-> IdleData]
  /\ currentId = "1"
  /\ nameMap = MapOfList(Catalog(Cardinality(Pokemon)))
  /\ InitSearch
  /\ totalPokemon = Cardinality(Pokemon)
  /\ pokemonList = Catalog(Cardinality(Pokemon))
  /\ pokemonNameArray = KeysOfList(pokemonList, {})
  /\ storage = [k \in StorageKeys |-> Absent]
  /\ remoteCount = Cardinality(Pokemon)
  /\ lcall = [IdleList EXCEPT !.pc = "done", !.apiCount = Cardinality(Pokemon),
                              !.temp = pokemonList, !.tempMap = nameMap,
                              !.tempKeys = pokemonNameArray, !.page = 1, !.reqs = 2]
  /\ saved = NothingSaved
  /\ InitFuzzy
  /\ InitBatch
  /\ InitLru
  /\ InitLruVersion
  /\ InitNav

\* _performSearch settles; .finally(() => { searchTimeout = null; searchAbortController = null })
SearchSettles(i) ==
  /\ search' = [search EXCEPT ![i] = "ended"]
  /\ searchTimeout' = Null
  /\ searchAbortController' = Null

\* fetchPokemonById's catch: if (err?.name === "AbortError") throw err;
\* any other error is shown before it is rethrown
ShowsError_Always(why) == TRUE
ShowsError(why) == why # "abort"
ErrorsAfter(shown, i, why) == IF ShowsError(why) THEN shown \cup {i} ELSE shown

\* the call rethrows the AbortError (or error): getPokemonData and
\* fetchPokemonById rethrow, _performSearch rejects
CallFails(c, d, why) ==
  /\ dcall' = [dcall EXCEPT ![c] = [d EXCEPT !.pc = "failed", !.net = "none",
                                             !.wakeAt = -1, !.error = why]]
  /\ shownError' = ErrorsAfter(shownError, signalOf[c], why)
  /\ SearchSettles(signalOf[c])

\* call c of search i requests the next part of the composite; a fetch
\* started with an aborted signal rejects at once
Issue(c, i, d, stage) ==
  IF Request(d, stage).net = "fetching" /\ AbortsFetch(i, aborted)
    THEN /\ dcall' = [dcall EXCEPT ![c] = [Request(d, stage) EXCEPT
                        !.pc = "failed", !.net = "none", !.error = "abort"]]
         /\ shownError' = ErrorsAfter(shownError, i, "abort")
         /\ SearchSettles(i)
    ELSE /\ dcall' = [dcall EXCEPT ![c] = Request(d, stage)]
         /\ search' = [search EXCEPT ![i] = "running"]
         /\ UNCHANGED <<searchTimeout, searchAbortController, shownError>>

\* scheduleSearch(): abort the controller in the state, clear the timer in
\* the state, create a controller and a timer.  A fetch in flight with the
\* aborted signal rejects, and the rejection runs the .finally of its
\* search before any other task: after the assignments of this call.
ScheduleSearch(n) ==
  LET old == searchAbortController
      ab == IF old # Null THEN aborted \cup {old} ELSE aborted
      hit == {c \in Calls : /\ AbortsFetch(signalOf[c], ab)
                            /\ dcall[c].net \in {"fetching", "json"}}
  IN
  /\ search[n] = "none"
  /\ \A i \in Searches : i < n => search[i] # "none"
  /\ aborted' = ab
  /\ dcall' = [c \in Calls |-> IF c \in hit
                 THEN [dcall[c] EXCEPT !.pc = "failed", !.net = "none", !.error = "abort"]
                 ELSE dcall[c]]
  /\ cache' = IF hit = {} THEN cache
              ELSE LET c == CHOOSE c \in hit : TRUE
                   IN CacheAfterCatch(cache, EntityOf(dcall[c].arg), c, now)
  /\ search' = [i \in Searches |->
                 IF i = n THEN "pending"
                 ELSE IF \E c \in hit : signalOf[c] = i THEN "ended"
                 ELSE IF i = searchTimeout /\ search[i] = "pending" THEN "cleared"
                 ELSE search[i]]
  /\ searchTimeout' = IF hit = {} THEN n ELSE Null
  /\ searchAbortController' = IF hit = {} THEN n ELSE Null
  /\ shownError' = IF hit = {} THEN shownError
                    ELSE ErrorsAfter(shownError, signalOf[CHOOSE c \in hit : TRUE], "abort")
  /\ UNCHANGED <<now, recency, lastOp, lastSet, throttleVars, queueVars, navVars, lruVars, batchVars, currentId, nameMap,
                 signalOf, listVars, fuzzyVars>>

\* the debounce timer of search i fires: _performSearch({ signal }) up to
\* its first suspension
SearchFire(i, raw) ==
  LET id == SearchTarget(raw, nameMap, totalPokemon) IN
  /\ search[i] = "pending"
  /\ IF id = NoKey
       THEN /\ SearchSettles(i)
            \* an empty input shows a message, a number out of range an error
            /\ shownError' = IF raw = "" THEN shownError ELSE shownError \cup {i}
            /\ UNCHANGED <<cache, dcall, currentId, signalOf>>
       ELSE /\ cache' = CacheAfterGet(cache, KeyOf(id), now)
            /\ IF CacheGetValue(cache, KeyOf(id), now) # Null
                 THEN /\ currentId' = ObjId(CacheGetValue(cache, KeyOf(id), now))
                      /\ SearchSettles(i)
                      /\ UNCHANGED <<dcall, signalOf, shownError>>
                 ELSE \E c \in Calls :
                        /\ dcall[c].pc = "idle"
                        /\ \A b \in Calls : b < c => dcall[b].pc # "idle"
                        /\ signalOf' = [signalOf EXCEPT ![c] = i]
                        /\ Issue(c, i, [IdleData EXCEPT !.arg = id], "base")
                        /\ UNCHANGED currentId
  /\ UNCHANGED <<now, recency, lastOp, lastSet, throttleVars, queueVars, navVars, lruVars, batchVars, nameMap, aborted, listVars, fuzzyVars>>

\* the throttle's delay of call c is over: fetch(url, options)
SWake(c) ==
  /\ dcall[c].net = "sleeping"
  /\ now >= dcall[c].wakeAt
  /\ IF AbortsFetch(signalOf[c], aborted)
       THEN CallFails(c, dcall[c], "abort")
       ELSE /\ dcall' = [dcall EXCEPT ![c].net = "fetching", ![c].wakeAt = -1]
            /\ UNCHANGED <<search, searchTimeout, searchAbortController, shownError>>
  /\ UNCHANGED <<now, cacheVars, throttleVars, queueVars, navVars, lruVars, batchVars, currentId, nameMap,
                 aborted, signalOf, listVars, fuzzyVars>>

\* the fetch of call c resolves with a 2xx response
SRespondOk(c) ==
  /\ dcall[c].net = "fetching"
  /\ lastRequestTime' = now
  /\ dcall' = [dcall EXCEPT ![c].net = "json"]
  /\ UNCHANGED <<now, cacheVars, tcall, dispatched, queueVars, navVars, lruVars, batchVars, currentId, nameMap,
                 searchVars, listVars, fuzzyVars>>

\* the fetch of call c fails for a reason other than an abort:
\* fetchPokemonById shows the error and rethrows
SFail(c, why) ==
  /\ \/ dcall[c].net = "fetching" /\ why = "error"
     \/ dcall[c].net = "json" /\ why = "parse"
  /\ cache' = CacheAfterCatch(cache, EntityOf(dcall[c].arg), c, now)
  /\ CallFails(c, dcall[c], why)
  /\ UNCHANGED <<now, recency, lastOp, lastSet, throttleVars, queueVars, navVars, lruVars, batchVars, currentId, nameMap,
                 aborted, signalOf, listVars, fuzzyVars>>

\* getPokemonData returns the composite: fetchPokemonById sets currentId
\* and displays it, _performSearch resolves
SearchDone(c, d) ==
  /\ Finish(c, d)
  /\ currentId' = EntityOf(d.arg)
  /\ UNCHANGED shownError
  /\ SearchSettles(signalOf[c])

SBaseOk(c, hasSpecies) ==
  /\ dcall[c].pc = "base" /\ dcall[c].net = "json"
  /\ IF hasSpecies
       THEN /\ Issue(c, signalOf[c], dcall[c], "species")
            /\ UNCHANGED <<cache, nameMap, currentId>>
       ELSE SearchDone(c, dcall[c])
  /\ UNCHANGED <<now, recency, lastOp, lastSet, throttleVars, queueVars, navVars, lruVars, batchVars, aborted, signalOf, listVars, fuzzyVars>>

SSpeciesOk(c, hasChain) ==
  /\ dcall[c].pc = "species" /\ dcall[c].net = "json"
  /\ IF hasChain
       THEN /\ Issue(c, signalOf[c], [dcall[c] EXCEPT !.sp = TRUE], "evolution")
            /\ UNCHANGED <<cache, nameMap, currentId>>
       ELSE SearchDone(c, [dcall[c] EXCEPT !.sp = TRUE])
  /\ UNCHANGED <<now, recency, lastOp, lastSet, throttleVars, queueVars, navVars, lruVars, batchVars, aborted, signalOf, listVars, fuzzyVars>>

SEvolutionOk(c) ==
  /\ dcall[c].pc = "evolution" /\ dcall[c].net = "json"
  /\ SearchDone(c, [dcall[c] EXCEPT !.evo = TRUE])
  /\ UNCHANGED <<now, recency, lastOp, lastSet, throttleVars, queueVars, navVars, lruVars, batchVars, aborted, signalOf, listVars, fuzzyVars>>

NextSearch ==
  \/ Tick
  \/ \E n \in Searches : ScheduleSearch(n)
  \/ \E i \in Searches, raw \in SearchInputs : SearchFire(i, raw)
  \/ \E c \in Calls : SWake(c)
  \/ \E c \in Calls : SRespondOk(c)
  \/ \E c \in Calls, why \in {"error", "parse"} : SFail(c, why)
  \/ \E c \in Calls, hasSpecies \in BOOLEAN : SBaseOk(c, hasSpecies)
  \/ \E c \in Calls, hasChain \in BOOLEAN : SSpeciesOk(c, hasChain)
  \/ \E c \in Calls : SEvolutionOk(c)

SpecSearch == InitLoaded /\ [][NextSearch]_vars

\* ------------------------------------------------------------------ batches (batchFetchPokemon of src/js/pokedex.js, _preloadAdjacent of src/js/controller.js)
\* getPokemonData(arg) up to its first await, as a function of the state it
\* reads: the cache lookup and, on a miss, the request for the base record
StartCall(st, c, arg) ==
  LET hit == CacheGetValue(st.cache, KeyOf(arg), now) IN
  [cache |-> CacheAfterGet(st.cache, KeyOf(arg), now),
   dcall |-> [st.dcall EXCEPT ![c] =
                IF hit # Null
                  THEN [IdleData EXCEPT !.pc = "done", !.arg = arg, !.result = hit]
                  ELSE Request([IdleData EXCEPT !.arg = arg], "base")],
   currentId |-> IF hit # Null /\ ~IsNumber(arg) THEN ObjIdIn(st.dcall, hit)
                 ELSE st.currentId]
\* ids.map(id => this.getPokemonData(id)): the calls start in turn, none is awaited
RECURSIVE StartAll(_, _, _)
StartAll(st, ids, c) ==
  IF ids = << >> THEN st ELSE StartAll(StartCall(st, c, Head(ids)), Tail(ids), c + 1)

\* how the promise of a getPokemonData call settled
Outcome(d) ==
  IF d.pc = "done" THEN [status |-> "fulfilled", value |-> d.result, reason |-> "none"]
  ELSE [status |-> "rejected", value |-> Null, reason |-> d.error]
\* promise.catch(() => {}): a rejection becomes a fulfilment with undefined
Caught(o) ==
  IF o.status = "rejected" THEN [status |-> "fulfilled", value |-> Null, reason |-> "none"]
  ELSE o
\* Promise.all(promises): the first rejection rejects the whole
AllSettled_FailFast(outs) ==
  IF \E i \in 1..Len(outs) : outs[i].status = "rejected"
    THEN [pc |-> "rejected", out |-> << >>]
    ELSE [pc |-> "settled", out |-> outs]
\* Promise.allSettled(promises): fulfils with one outcome per promise
AllSettled(outs) == [pc |-> "settled", out |-> outs]

\* the collections of identifiers a batch is called with
RECURSIVE IdSeqs(_)
IdSeqs(n) ==
  IF n = 0 THEN {<< >>}
  ELSE IdSeqs(n - 1)
         \cup {Append(ids, a) : ids \in {q \in IdSeqs(n - 1) : Len(q) = n - 1}, a \in Args}

\* batchFetchPokemon(ids) up to the await of Promise.allSettled
BatchStart(ids) ==
  /\ batch.pc = "idle"
  /\ LET st == StartAll([cache |-> cache, dcall |-> dcall, currentId |-> currentId], ids, 1) IN
       /\ cache' = st.cache
       /\ dcall' = st.dcall
       /\ currentId' = st.currentId
  /\ batch' = [kind |-> "batch", pc |-> "pending", ids |-> ids, out |-> << >>]
  /\ UNCHANGED <<now, recency, lastOp, lastSet, throttleVars, queueVars, navVars, lruVars, nameMap,
                 searchVars, listVars, fuzzyVars>>

\* this.state.pokemonList.findIndex(p => p.id === currentId), counted from 0
FindIndex(list, id) ==
  IF \E i \in 1..Len(list) : list[i].id = id
    THEN (CHOOSE i \in 1..Len(list) :
            list[i].id = id /\ \A j \in 1..(i - 1) : list[j].id # id) - 1
    ELSE -1
\* Math.max, Math.min
Max2(a, b) == IF a >= b THEN a ELSE b
Min2(a, b) == IF a <= b THEN a ELSE b
\* previous, next, up and down of index i in a list of n entries
PreloadIndices(i, n) ==
  <<Max2(0, i - 1), Min2(n - 1, i + 1), Max2(0, i - 10), Min2(n - 1, i + 10)>>
\* [...new Set(seq)]: the first occurrence of each element, in order
RECURSIVE Unique(_, _)
Unique(seq, seen) ==
  IF seq = << >> THEN << >>
  ELSE IF Head(seq) \in seen THEN Unique(Tail(seq), seen)
  ELSE <<Head(seq)>> \o Unique(Tail(seq), seen \cup {Head(seq)})
\* .filter(id => !this.state.pokemonCache.get(id)): the ids that are not
\* cached, and the cache after these calls of get
RECURSIVE FilterUncached(_, _, _)
FilterUncached(c0, ids, t) ==
  IF ids = << >> THEN [cache |-> c0, ids |-> << >>]
  ELSE LET rest == FilterUncached(CacheAfterGet(c0, Head(ids), t), Tail(ids), t) IN
       IF CacheGetValue(c0, Head(ids), t) # Null THEN rest
       ELSE [rest EXCEPT !.ids = <<Head(ids)>> \o rest.ids]
\* .slice(0, n)
Slice(seq, n) == SubSeq(seq, 1, Min2(n, Len(seq)))
\* PRELOAD_MAX_ADJACENT, this.config.app.maxPreloadPokemon
PRELOAD_MAX == 3
\* the ids _preloadAdjacent(id) decides to preload, and the cache after the filter
PreloadIds(list, c0, id, t) ==
  LET i == FindIndex(list, id)
      ix == PreloadIndices(i, Len(list))
      cand == Unique([k \in 1..Len(ix) |-> list[ix[k] + 1].id], {})
      f == FilterUncached(c0, cand, t)
  IN IF i = -1 THEN [cache |-> c0, ids |-> << >>]
     ELSE [f EXCEPT !.ids = Slice(f.ids, PRELOAD_MAX)]

\* _preloadAdjacent(id) up to the await of Promise.allSettled; with nothing
\* to preload it returns at once
PreloadStart(id) ==
  /\ batch.pc = "idle"
  /\ LET p == PreloadIds(pokemonList, cache, id, now)
         st == StartAll([cache |-> p.cache, dcall |-> dcall, currentId |-> currentId],
                        p.ids, 1)
     IN /\ Len(p.ids) <= MaxCalls
        /\ cache' = st.cache
        /\ dcall' = st.dcall
        /\ currentId' = st.currentId
        /\ batch' = [kind |-> "preload",
                     pc |-> IF p.ids = << >> THEN "settled" ELSE "pending",
                     ids |-> p.ids, out |-> << >>]
  /\ UNCHANGED <<now, recency, lastOp, lastSet, throttleVars, queueVars, navVars, lruVars, nameMap,
                 searchVars, listVars, fuzzyVars>>

\* every promise of the batch has settled: Promise.allSettled settles
BatchSettle ==
  /\ batch.pc = "pending"
  /\ \A i \in 1..Len(batch.ids) : dcall[i].pc \in {"done", "failed"}
  /\ LET outs == [i \in 1..Len(batch.ids) |->
                    IF batch.kind = "preload" THEN Caught(Outcome(dcall[i]))
                    ELSE Outcome(dcall[i])]
         r == AllSettled(outs)
     IN batch' = [batch EXCEPT !.pc = r.pc, !.out = r.out]
  /\ UNCHANGED <<now, cacheVars, throttleVars, queueVars, navVars, lruVars, dataVars,
                 searchVars, listVars, fuzzyVars>>

NextBatch ==
  \/ Tick
  \/ \E ids \in IdSeqs(MaxCalls) : BatchStart(ids)
  \/ \E id \in Pokemon \cup {"3"} : PreloadStart(id)
  \/ BatchSettle
  \/ \E c \in Calls : DWake(c)
  \/ \E c \in Calls : DRespondOk(c)
  \/ \E c \in Calls, why \in {"error", "abort", "parse"} : DFail(c, why)
  \/ \E c \in Calls, hasSpecies \in BOOLEAN : DBaseOk(c, hasSpecies)
  \/ \E c \in Calls, hasChain \in BOOLEAN : DSpeciesOk(c, hasChain)
  \/ \E c \in Calls : DEvolutionOk(c)

SpecBatch == InitLoaded /\ [][NextBatch]_vars

\* ------------------------------------------------------------------ navigatePokemon (src/js/controller.js)
\* fetchPokemonById is taken as a whole: it resolves after setting currentId
\* to the Pokemon it showed, or it rejects; what it does to the cache is
\* left to the specification of getPokemonData.
Directions == {"up", "down", "left", "right", "other"}
\* if (this.state.isNavigating) return;
NavBusy_Never(flag) == FALSE
NavBusy(flag) == flag
\* the switch on direction: the index to go to from index i in a list of n
NextIndex(direction, i, n) ==
  IF direction = "up" THEN Max2(0, i - 10)
  ELSE IF direction = "down" THEN Min2(n - 1, i + 10)
  ELSE IF direction = "left" THEN Max2(0, i - 1)
  ELSE IF direction = "right" THEN Min2(n - 1, i + 1)
  ELSE i

\* navigatePokemon(direction) up to its await: dropped while a navigation is
\* in progress; otherwise the flag is set, and cleared again at once when
\* the current Pokemon is not in the list or the index does not change
NavStart(c, direction) ==
  LET i == FindIndex(pokemonList, currentId)
      n == NextIndex(direction, i, Len(pokemonList))
  IN
  /\ nav[c].pc = "idle"
  /\ \A b \in NavCalls : b < c => nav[b].pc # "idle"
  /\ IF NavBusy(isNavigating)
       THEN /\ nav' = [nav EXCEPT ![c] = [pc |-> "dropped", direction |-> direction,
                                          target |-> NoKey]]
            /\ UNCHANGED isNavigating
     ELSE IF i = -1
       THEN /\ nav' = [nav EXCEPT ![c] = [pc |-> "unlisted", direction |-> direction,
                                          target |-> NoKey]]
            /\ isNavigating' = FALSE
     ELSE IF n # i
       THEN /\ nav' = [nav EXCEPT ![c] = [pc |-> "fetching", direction |-> direction,
                                          target |-> pokemonList[n + 1].id]]
            /\ isNavigating' = TRUE
     ELSE /\ nav' = [nav EXCEPT ![c] = [pc |-> "stayed", direction |-> direction,
                                        target |-> NoKey]]
          /\ isNavigating' = FALSE
  /\ UNCHANGED <<now, cacheVars, throttleVars, queueVars, lruVars, batchVars, dataVars,
                 searchVars, listVars, fuzzyVars>>

\* await this.fetchPokemonById(nextPokemon.id) resolves
NavFetchOk(c) ==
  /\ nav[c].pc = "fetching"
  /\ currentId' = nav[c].target
  /\ nav' = [nav EXCEPT ![c].pc = "shown"]
  /\ isNavigating' = FALSE
  /\ UNCHANGED <<now, cacheVars, throttleVars, queueVars, lruVars, batchVars, dcall, nameMap,
                 searchVars, listVars, fuzzyVars>>

\* it rejects: catch (err) { this.ui.showError(...) }
NavFetchFail(c) ==
  /\ nav[c].pc = "fetching"
  /\ nav' = [nav EXCEPT ![c].pc = "failed"]
  /\ isNavigating' = FALSE
  /\ UNCHANGED <<now, cacheVars, throttleVars, queueVars, lruVars, batchVars, dataVars,
                 searchVars, listVars, fuzzyVars>>

NextNav ==
  \/ \E c \in NavCalls, direction \in Directions : NavStart(c, direction)
  \/ \E c \in NavCalls : NavFetchOk(c)
  \/ \E c \in NavCalls : NavFetchFail(c)

\* before the list is loaded, or with the list loaded
SpecNav == (Init \/ InitLoaded) /\ [][NextNav]_vars

\* ------------------------------------------------------------------ claims: search

\* C11: after any sequence of scheduleSearch calls, timer firings and request
\* completions at most one debounce timer is pending and at most one
\* non-aborted search is running.
C11_OneTimerOneSearch ==
  /\ Cardinality({i \in Searches : search[i] = "pending"}) <= 1
  /\ Cardinality({i \in Searches : search[i] = "running" /\ i \notin aborted}) <= 1

\* C12 as stated: cancelling a search leaves a call that was already
\* dispatched running; it does not fail because of the cancellation.
C12_DispatchedSurvivesCancel ==
  [][\A c \in Calls :
       (/\ dcall[c].net \in {"fetching", "json"}
        /\ signalOf[c] \in aborted' \ aborted)
       => dcall'[c].pc # "failed"]_vars

\* C12: cancelling a search aborts the call dispatched with the search's
\* signal: the call fails with an AbortError in the same step and the cache
\* is not written.
C12_CancelAbortsDispatched ==
  [][\A c \in Calls :
       (/\ dcall[c].net \in {"fetching", "json"}
        /\ signalOf[c] # Null
        /\ signalOf[c] \in aborted')
       => (/\ dcall'[c].pc = "failed"
           /\ dcall'[c].error = "abort"
           /\ cache' = cache)]_vars
\* a dispatched call was aborted by a later scheduleSearch
C12_Witness ==
  \E c \in Calls : /\ dcall[c].error = "abort"
                   /\ dcall[c].reqs >= 1
                   /\ signalOf[c] \in aborted

\* ------------------------------------------------------------------ claims: name list
ListState == <<pokemonList, nameMap, pokemonNameArray, totalPokemon>>

\* C13: while the pages are being fetched the list, the name map, the name
\* array and the total keep their values and nothing is persisted, a failed
\* page request included; they are replaced together, by the complete
\* list, in the step that follows the last page.
C13_AtomicSwap ==
  [][lcall.pc \in {"page", "yield"} =>
       IF lcall'.pc = "done"
         THEN /\ ~HasNext(lcall.page, remoteCount)
              /\ Len(pokemonList') = remoteCount
              /\ nameMap' = MapOfList(pokemonList')
              /\ pokemonNameArray' = KeysOfList(pokemonList', {})
              /\ totalPokemon' = Len(pokemonList')
         ELSE /\ ListState' = ListState
              /\ storage' = storage]_vars
\* the second page of a load failed after the first was accumulated
C13_Witness ==
  /\ lcall.pc = "failed"
  /\ Len(lcall.temp) > 0
  /\ pokemonList = << >>

\* C14: the persisted list is adopted only if its length is the remote count
\* and its age does not exceed the TTL.
C14_AdoptOnlyFresh ==
  [][(lcall.pc = "count" /\ lcall'.pc = "done") =>
       /\ Len(pokemonList') = remoteCount
       /\ storage[TsKey(StorageKey)].kind = "num"
       /\ now - storage[TsKey(StorageKey)].val[1] <= ListTTL]_vars

\* C15: when the count arrives and storage holds the list this program
\* persisted, with a timestamp within the TTL, and the catalog still has as
\* many entries, the load ends there with the name map and name array the
\* persisting load had built, having sent the count request only.
C15_RoundTrip ==
  [][(/\ lcall.pc = "count"
      /\ lcall'.pc # "count"
      /\ saved.valid
      /\ storage[StorageKey] = Stringify(saved.list)
      /\ storage[TsKey(StorageKey)].kind = "num"
      /\ now - storage[TsKey(StorageKey)].val[1] <= ListTTL
      /\ remoteCount = Len(saved.list)
      /\ lcall'.pc # "rejected")
     => (/\ lcall'.pc = "done"
         /\ lcall'.reqs = 1
         /\ pokemonList' = saved.list
         /\ nameMap' = saved.map
         /\ pokemonNameArray' = saved.keys
         /\ totalPokemon' = remoteCount)]_vars
\* a persisted list with a name in upper case was adopted
C15_Witness ==
  /\ lcall.pc = "done"
  /\ lcall.reqs = 1
  /\ saved.valid
  /\ pokemonList = saved.list
  /\ nameMap = saved.map
  /\ \E i \in 1..Len(pokemonList) : ToLower(pokemonList[i].name) # pokemonList[i].name

\* C16: whatever the persisted list and timestamp hold, loadPokemonList
\* does not throw on them.
C16_StorageNeverFailsStartup == lcall.pc # "threw"

\* ------------------------------------------------------------------ _computeLevenshtein (src/js/controller.js)
\* a string is the sequence of its characters
Letters == {"a", "b"}
RECURSIVE StringsOver(_, _)
StringsOver(chars, n) ==
  IF n = 0 THEN {<< >>}
  ELSE StringsOver(chars, n - 1)
         \cup {Append(str, c) : str \in StringsOver(chars, n - 1), c \in chars}
\* threshold = Infinity
Infinity == 1000000
Min3(a, b, c) == Min2(a, Min2(b, c))
RECURSIVE SeqMin(_)
SeqMin(row) == IF Len(row) = 1 THEN row[1] ELSE Min2(Head(row), SeqMin(Tail(row)))

\* for (let j = 0; j <= n; j++) prevRow[j] = j
FirstRow(n) == [j \in 1..(n + 1) |-> j - 1]
\* const cost = s1[i - 1] === s2[j - 1] ? 0 : 1
Cost_Always(c1, c2) == 1
Cost(c1, c2) == IF c1 = c2 THEN 0 ELSE 1
\* the inner loop: currRow[0] = i, then currRow[j] for j = 1..n; row[j + 1]
\* holds currRow[j]
RECURSIVE FillRow(_, _, _, _, _, _)
FillRow(prevRow, currRow, s1, s2, i, j) ==
  IF j > Len(s2) THEN currRow
  ELSE FillRow(prevRow,
               Append(currRow, Min3(prevRow[j + 1] + 1,
                                    currRow[j] + 1,
                                    prevRow[j] + Cost(s1[i], s2[j]))),
               s1, s2, i, j + 1)
\* the outer loop from row i on, with the early return on minInRow > threshold
RECURSIVE FillRows(_, _, _, _, _)
FillRows(prevRow, s1, s2, i, threshold) ==
  IF i > Len(s1) THEN prevRow[Len(s2) + 1]
  ELSE IF SeqMin(FillRow(prevRow, <<i>>, s1, s2, i, 1)) > threshold THEN threshold + 1
  ELSE FillRows(FillRow(prevRow, <<i>>, s1, s2, i, 1), s1, s2, i + 1, threshold)
\* _computeLevenshtein(s1, s2, threshold)
ComputeLevenshtein(s1, s2, threshold) ==
  IF Len(s1) = 0 THEN Len(s2)
  ELSE IF Len(s2) = 0 THEN Len(s1)
  ELSE IF Len(s1) > Len(s2) THEN FillRows(FirstRow(Len(s1)), s2, s1, 1, threshold)
  ELSE FillRows(FirstRow(Len(s2)), s1, s2, 1, threshold)

\* the strings and thresholds the function is applied to
Kitten == <<"k", "i", "t", "t", "e", "n">>
Sitting == <<"s", "i", "t", "t", "i", "n", "g">>
Abc == <<"a", "b", "c">>
Aabb == <<"a", "a", "b", "b">>
Bbac == <<"b", "b", "a", "c">>
LevStrings == StringsOver(Letters, MaxLen)
LevPairs ==
  (LevStrings \X LevStrings)
    \cup {<<Kitten, Sitting>>, <<Sitting, Kitten>>, <<Abc, Abc>>,
          <<Aabb, Bbac>>, <<Bbac, Aabb>>}
LevThresholds == {Infinity, 1, 2}
InitLev ==
  /\ InitProgram
  /\ fz = IdleFuzzy
  /\ lev \in {[s1 |-> pr[1], s2 |-> pr[2], threshold |-> th, out |-> -1] :
                pr \in LevPairs, th \in LevThresholds}

\* the call returns
LevCall ==
  /\ lev.out = -1
  /\ lev' = [lev EXCEPT !.out = ComputeLevenshtein(lev.s1, lev.s2, lev.threshold)]
  /\ UNCHANGED <<now, cacheVars, throttleVars, queueVars, navVars, lruVars, batchVars, dataVars, searchVars, listVars, fz>>

NextLev == LevCall

SpecLev == InitLev /\ [][NextLev]_vars

\* ------------------------------------------------------------------ claims: edit distance
\* the edit distance by its defining recurrence: the least number of
\* single-character insertions, deletions and substitutions turning s into t
RECURSIVE EditDistance(_, _)
EditDistance(s, t) ==
  IF s = << >> THEN Len(t)
  ELSE IF t = << >> THEN Len(s)
  ELSE IF Head(s) = Head(t) THEN EditDistance(Tail(s), Tail(t))
  ELSE 1 + Min3(EditDistance(Tail(s), t), EditDistance(s, Tail(t)),
                EditDistance(Tail(s), Tail(t)))

\* C20: with the default threshold _computeLevenshtein(s1, s2) is the edit
\* distance of s1 and s2, empty strings and either argument order included;
\* it is 3 for "kitten" and "sitting" and 0 for "abc" and "abc".
C20_ClassicDistance ==
  (lev.out # -1 /\ lev.threshold = Infinity) =>
     /\ lev.out = EditDistance(lev.s1, lev.s2)
     /\ lev.out = ComputeLevenshtein(lev.s2, lev.s1, Infinity)
     /\ (lev.s1 = Kitten /\ lev.s2 = Sitting) => lev.out = 3
     /\ (lev.s1 = Sitting /\ lev.s2 = Kitten) => lev.out = 3
     /\ (lev.s1 = Abc /\ lev.s2 = Abc) => lev.out = 0
\* the function was applied to two different non-empty strings, the longer first
C20_Witness ==
  /\ lev.out > 0
  /\ lev.threshold = Infinity
  /\ Len(lev.s1) > Len(lev.s2)
  /\ Len(lev.s2) > 0

\* ------------------------------------------------------------------ _fuzzySearch (src/js/controller.js)
\* String.prototype.toLowerCase, character by character
LowerStr(str) == [i \in 1..Len(str) |-> ToLower(str[i])]
\* str.replace(/[-_]/g, ' ')
ReplaceSeps(str) == [i \in 1..Len(str) |-> IF str[i] \in {"-", "_"} THEN " " ELSE str[i]]
\* String.prototype.trim
RECURSIVE TrimStart(_)
TrimStart(str) ==
  IF str # << >> /\ Head(str) = " " THEN TrimStart(Tail(str)) ELSE str
RECURSIVE TrimEnd(_)
TrimEnd(str) ==
  IF str # << >> /\ str[Len(str)] = " " THEN TrimEnd(SubSeq(str, 1, Len(str) - 1)) ELSE str
Trim(str) == TrimEnd(TrimStart(str))
\* str.split(/\s+/): the pieces between runs of whitespace, an empty piece
\* before a leading and after a trailing run included
RECURSIVE SplitWs(_, _)
SplitWs(str, piece) ==
  IF str = << >> THEN <<piece>>
  ELSE IF Head(str) = " " THEN <<piece>> \o SplitWs(TrimStart(str), << >>)
  ELSE SplitWs(Tail(str), Append(piece, Head(str)))
\* String.prototype.includes / startsWith / substring(from, to)
Includes_NotAtStart(str, part) ==
  \E i \in 1..(Len(str) - Len(part)) : SubSeq(str, i + 1, i + Len(part)) = part
Includes(str, part) ==
  \E i \in 0..(Len(str) - Len(part)) : SubSeq(str, i + 1, i + Len(part)) = part
StartsWith(str, part) ==
  Len(part) <= Len(str) /\ SubSeq(str, 1, Len(part)) = part
Substring(str, from, to) == SubSeq(str, from + 1, to)

\* query.replace(/[-_]/g, ' ').trim(), lowercased, split, empty tokens filtered
QueryTokens(query) ==
  SelectSeq(SplitWs(LowerStr(Trim(ReplaceSeps(query))), << >>), LAMBDA t : Len(t) > 0)
\* name.replace(/[-_]/g, ' ').toLowerCase().split(/\s+/)
NameTokens(name) == SplitWs(LowerStr(ReplaceSeps(name)), << >>)
\* queryTokens.every(qt => nameTokens.some(nt => nt.startsWith(qt) || lev(qt, nt, 1) <= 1))
TokensMatch_InOrder(queryTokens, nameTokens) ==
  \A i \in 1..Len(queryTokens) :
    /\ i <= Len(nameTokens)
    /\ \/ StartsWith(nameTokens[i], queryTokens[i])
       \/ ComputeLevenshtein(queryTokens[i], nameTokens[i], 1) <= 1
TokensMatch(queryTokens, nameTokens) ==
  \A i \in 1..Len(queryTokens) : \E j \in 1..Len(nameTokens) :
    \/ StartsWith(nameTokens[j], queryTokens[i])
    \/ ComputeLevenshtein(queryTokens[i], nameTokens[j], 1) <= 1

\* _isFuzzyMatch: the query's characters appear in the target in order
RECURSIVE InOrder(_, _)
InOrder(query, target) ==
  IF query = << >> THEN TRUE
  ELSE IF target = << >> THEN FALSE
  ELSE IF Head(query) = Head(target) THEN InOrder(Tail(query), Tail(target))
  ELSE InOrder(query, Tail(target))
IsFuzzyMatch_Never(query, target) == FALSE
IsFuzzyMatch(query, target) ==
  /\ query # << >>
  /\ target # << >>
  /\ InOrder(LowerStr(query), LowerStr(target))

\* _hasTypoMatch: a window of the target, its prefix, or the query's prefix
\* is within distance 1
TypoStep(q) == IF Len(q) \div 3 >= 1 THEN Len(q) \div 3 ELSE 1
TypoMatchLowered(q, t) ==
  /\ Len(q) > 2
  /\ \/ \E i \in 0..(Len(t) - Len(q)) :
          /\ i % TypoStep(q) = 0
          /\ ComputeLevenshtein(q, Substring(t, i, i + Len(q)), 1) <= 1
     \/ /\ Len(t) >= Len(q)
        /\ (Len(t) - Len(q)) % TypoStep(q) # 0
        /\ ComputeLevenshtein(q, Substring(t, Len(t) - Len(q), Len(t)), 1) <= 1
     \/ /\ Len(t) >= Len(q)
        /\ ComputeLevenshtein(q, Substring(t, 0, Len(q)), 1) <= 1
     \/ /\ Len(q) >= Len(t)
        /\ ComputeLevenshtein(t, Substring(q, 0, Len(t)), 1) <= 1
HasTypoMatch(query, target) == TypoMatchLowered(LowerStr(query), LowerStr(target))

\* the tier the loop body assigns to a name: 1 substring, 2 prefix,
\* 3 multi-token, 4 fuzzy fallback, 0 when the name does not match
MatchPriority(name, query) ==
  IF Includes(name, query) THEN 1
  ELSE IF StartsWith(name, query) THEN 2
  ELSE IF TokensMatch(QueryTokens(query), NameTokens(name)) THEN 3
  ELSE IF IsFuzzyMatch(query, name) \/ HasTypoMatch(query, name) THEN 4
  ELSE 0
\* the loop over allNames from index i on, with its early exit
RECURSIVE CollectMatches(_, _, _, _)
CollectMatches(names, query, i, matches) ==
  IF i > Len(names) THEN matches
  ELSE IF MatchPriority(names[i], query) = 0 THEN CollectMatches(names, query, i + 1, matches)
  ELSE IF /\ Len(matches) + 1 >= MaxResults
          /\ MatchPriority(names[i], query) <= 2
    THEN Append(matches, [priority |-> MatchPriority(names[i], query), name |-> names[i]])
  ELSE CollectMatches(names, query, i + 1,
         Append(matches, [priority |-> MatchPriority(names[i], query), name |-> names[i]]))
\* the comparator of matches.sort
CompareMatches_PriorityOnly(a, b) == a.priority - b.priority
CompareMatches(a, b) ==
  IF a.priority # b.priority THEN a.priority - b.priority
  ELSE Len(a.name) - Len(b.name)
\* Array.prototype.sort is stable: an element goes after those that do not
\* compare greater
InsertMatch(sorted, x) ==
  LET k == Cardinality({i \in 1..Len(sorted) : CompareMatches(sorted[i], x) <= 0})
  IN SubSeq(sorted, 1, k) \o <<x>> \o SubSeq(sorted, k + 1, Len(sorted))
RECURSIVE SortMatches(_)
SortMatches(matches) ==
  IF matches = << >> THEN << >>
  ELSE InsertMatch(SortMatches(SubSeq(matches, 1, Len(matches) - 1)), matches[Len(matches)])
\* matches.slice(0, 100).map(m => m.name)
SliceNames(sorted) == [i \in 1..Min2(Len(sorted), MaxResults) |-> sorted[i].name]
\* _fuzzySearch(query) over the name array
FuzzySearch(names, query) ==
  IF Len(names) = 0 THEN << >>
  ELSE SliceNames(SortMatches(CollectMatches(names, query, 1, << >>)))

\* the names of the index and the queries the search is applied to
FuzzyNames == {<<"a", "d">>, <<"b", "a", "d">>, <<"a", "b", "c", "d">>,
               <<"c", "d", "-", "a", "b">>, <<"a", "b", "d">>,
               <<"x", "x", "a", "b", "d">>}
\* the name with its i-th character deleted
DeleteAt(str, i) == SubSeq(str, 1, i - 1) \o SubSeq(str, i + 1, Len(str))
Deletions(str) == {DeleteAt(str, i) : i \in 1..Len(str)}
FuzzyQueries ==
  {<<"a", "d">>, <<"a", "b", " ", "c", "d">>, <<"a", "b", "c">>, <<"-">>, <<"x", "c">>}
    \cup UNION {Deletions(n) : n \in FuzzyNames}
RECURSIVE ArraysOver(_, _)
ArraysOver(names, n) ==
  IF n = 0 THEN {<< >>}
  ELSE ArraysOver(names, n - 1)
         \cup {Append(arr, x) : arr \in ArraysOver(names, n - 1), x \in names}
Distinct(arr) == \A i, j \in 1..Len(arr) : arr[i] = arr[j] => i = j
NameArrays == {arr \in ArraysOver(FuzzyNames, MaxNames) : Distinct(arr)}
Pikachu == <<"p", "i", "k", "a", "c", "h", "u">>
Pikacu == <<"p", "i", "k", "a", "c", "u">>
CharizardMega == <<"c", "h", "a", "r", "i", "z", "a", "r", "d", "-", "m", "e", "g", "a">>
MegaCharizard == <<"m", "e", "g", "a", " ", "c", "h", "a", "r", "i", "z", "a", "r", "d">>
FuzzyInputs ==
  (NameArrays \X FuzzyQueries)
    \cup {<<<<Pikachu>>, Pikacu>>, <<<<CharizardMega>>, MegaCharizard>>,
          <<<<CharizardMega, Pikachu>>, MegaCharizard>>}
InitFuzzySearch ==
  /\ InitProgram
  /\ lev = IdleLev
  /\ fz \in {[names |-> in[1], query |-> in[2], done |-> FALSE, out |-> << >>] :
               in \in FuzzyInputs}

\* the call returns
FuzzyCall ==
  /\ ~fz.done
  /\ fz' = [fz EXCEPT !.done = TRUE, !.out = FuzzySearch(fz.names, fz.query)]
  /\ UNCHANGED <<now, cacheVars, throttleVars, queueVars, navVars, lruVars, batchVars, dataVars, searchVars, listVars, lev>>

NextFuzzy == FuzzyCall

SpecFuzzy == InitFuzzySearch /\ [][NextFuzzy]_vars

\* ------------------------------------------------------------------ claims: fuzzy search
PriorityOf(name) == MatchPriority(name, fz.query)
Matching == {i \in 1..Len(fz.names) : PriorityOf(fz.names[i]) # 0}

\* C17: _fuzzySearch returns at most MaxResults names of the index, each
\* matched by some tier, ordered by priority ascending and within a priority
\* by length ascending; every returned substring match precedes every
\* returned name matched only by a later tier.
C17_CappedAndOrdered ==
  fz.done =>
    /\ Len(fz.out) <= MaxResults
    /\ \A i \in 1..Len(fz.out) :
         /\ \E k \in 1..Len(fz.names) : fz.names[k] = fz.out[i]
         /\ PriorityOf(fz.out[i]) \in 1..4
    /\ \A i, j \in 1..Len(fz.out) :
         i < j =>
           /\ PriorityOf(fz.out[i]) <= PriorityOf(fz.out[j])
           /\ PriorityOf(fz.out[i]) = PriorityOf(fz.out[j])
                => Len(fz.out[i]) <= Len(fz.out[j])
    /\ \A i, j \in 1..Len(fz.out) :
         (Includes(fz.out[i], fz.query) /\ ~Includes(fz.out[j], fz.query)) => i < j
\* more names matched than are returned, and the returned ones were reordered
C17_Witness ==
  /\ fz.done
  /\ Len(fz.out) = MaxResults
  /\ Cardinality(Matching) > MaxResults
  /\ PriorityOf(fz.out[1]) < PriorityOf(fz.out[MaxResults])
  /\ fz.out[1] # fz.names[1]

\* the tokens of a string: its maximal runs of characters other than '-',
\* '_' and whitespace
IsSeparator(c) == c \in {"-", "_", " "}
TokensOf(str) ==
  {SubSeq(str, r[1], r[2]) :
     r \in {q \in (1..Len(str)) \X (1..Len(str)) :
              /\ q[1] <= q[2]
              /\ \A k \in q[1]..q[2] : ~IsSeparator(str[k])
              /\ q[1] = 1 \/ IsSeparator(str[q[1] - 1])
              /\ q[2] = Len(str) \/ IsSeparator(str[q[2] + 1])}}
TokenClose(qt, nt) == StartsWith(nt, qt) \/ EditDistance(qt, nt) <= 1

\* C18: a name that does not contain the query is given the multi-token tier
\* exactly when every token of the query is a prefix of, or within edit
\* distance 1 of, some token of the name, whatever the order of the tokens;
\* "mega charizard" finds "charizard-mega" by this tier.
C18_MultiToken ==
  fz.done =>
    /\ \A i \in 1..Len(fz.names) :
         ~Includes(fz.names[i], fz.query) =>
           (PriorityOf(fz.names[i]) = 3
              <=> \A qt \in TokensOf(fz.query) :
                    \E nt \in TokensOf(fz.names[i]) : TokenClose(qt, nt))
    /\ (fz.query = MegaCharizard /\ fz.names = <<CharizardMega>>)
         => (fz.out = <<CharizardMega>> /\ PriorityOf(CharizardMega) = 3)
\* "mega charizard" was searched for among "charizard-mega" and "pikachu"
C18_Witness ==
  /\ fz.done
  /\ fz.query = MegaCharizard
  /\ fz.names = <<CharizardMega, Pikachu>>
  /\ fz.out = <<CharizardMega>>

IsDeletion(query, name) == query # << >> /\ query \in Deletions(name)

\* C19 as stated: a name found from the query that is the name less one
\* character is found by the fallback tier.
C19_DeletionIsFallback ==
  fz.done =>
    \A i \in 1..Len(fz.names) :
      IsDeletion(fz.query, fz.names[i]) => PriorityOf(fz.names[i]) = 4

\* C19: a query that is a name of the index less one character matches that
\* name, by the first tier that applies (substring, multi-token or fallback),
\* and the name is returned unless MaxResults names rank before it;
\* "pikacu" finds "pikachu" by the multi-token tier.
C19_DeletionMatches ==
  fz.done =>
    /\ \A i \in 1..Len(fz.names) :
         IsDeletion(fz.query, fz.names[i]) =>
           /\ PriorityOf(fz.names[i]) \in {1, 3, 4}
           /\ Len(fz.out) < MaxResults
                => \E k \in 1..Len(fz.out) : fz.out[k] = fz.names[i]
    /\ (fz.query = Pikacu /\ fz.names = <<Pikachu>>)
         => (fz.out = <<Pikachu>> /\ PriorityOf(Pikachu) = 3)
\* a name was found from a deletion by the fallback tier, the separator
\* having been deleted
C19_Witness ==
  /\ fz.done
  /\ \E i \in 1..Len(fz.names) :
       /\ IsDeletion(fz.query, fz.names[i])
       /\ PriorityOf(fz.names[i]) = 4
       /\ \E k \in 1..Len(fz.out) : fz.out[k] = fz.names[i]

\* C21: with a finite threshold T, _computeLevenshtein returns the edit
\* distance when that distance is at most T, and T + 1 when it exceeds T.
C21_ThresholdContract ==
  (lev.out # -1 /\ lev.threshold # Infinity) =>
    IF EditDistance(lev.s1, lev.s2) <= lev.threshold
      THEN lev.out = EditDistance(lev.s1, lev.s2)
      ELSE lev.out = lev.threshold + 1

\* the evolution chain an entity belongs to: both entities of the model are
\* stages of one chain
ChainOf(id) == "1"
\* the chain of entity id is held by an unexpired entry of the cache, the
\* composite of another entity of that chain
ChainCached(c0, calls, id, t) ==
  \E i \in 1..Len(c0) :
    /\ ~IsExpired(c0[i], t)
    /\ calls[c0[i].value].evo
    /\ ObjIdIn(calls, c0[i].value) # id
    /\ ChainOf(ObjIdIn(calls, c0[i].value)) = ChainOf(id)

\* C22: getPokemonData issues no request for an evolution chain that the
\* cache still holds from the resolution of another entity of that chain.
C22_SharedChainNotRefetched ==
  [][\A c \in Calls :
       (/\ dcall[c].pc = "species"
        /\ dcall'[c].pc = "evolution"
        /\ ChainCached(cache, dcall, EntityOf(dcall[c].arg), now))
         => dcall'[c].reqs = dcall[c].reqs]_vars

\* the sequences of keys that later calls of set may be made with
RECURSIVE KeySeqs(_)
KeySeqs(n) ==
  IF n = 0 THEN {<< >>}
  ELSE KeySeqs(n - 1)
         \cup {Append(ks, k) : ks \in {q \in KeySeqs(n - 1) : Len(q) = n - 1}, k \in CacheKeys}
\* the key that the next eviction removes when set is called with the keys
\* ks in turn (NoKey when none of these calls evicts)
RECURSIVE NextEvicted(_, _, _)
NextEvicted(c, ks, t) ==
  IF ks = << >> THEN NoKey
  ELSE IF EvictedBySet(c, t) # NoKey THEN EvictedBySet(c, t)
  ELSE NextEvicted(CacheSet(c, Head(ks), 1, t), Tail(ks), t)

\* C23: has(key) answers true exactly when get(key) would return the stored
\* value, and the key that the next eviction removes is the same whether or
\* not has was called.
C23_HasChangesNoEviction ==
  [][lastOp'.op = "has" =>
       /\ (lastOp'.result # Null) <=> (CacheGetValue(cache, lastOp'.key, now) # Null)
       /\ \A ks \in KeySeqs(MaxSize) :
            NextEvicted(cache', ks, now) = NextEvicted(cache, ks, now)]_vars

\* C24: after set(k, v), as long as k was not set again, not evicted by a
\* later set (nor the cache cleared) and now - storedAt <= expiry, get(k)
\* returns v: the cache holds v for k, and a get that was just made
\* returned it.
C24_SetThenGet ==
  \A k \in Keys :
    (lastSet[k] # NoStore /\ now - lastSet[k].storedAt <= Expiry) =>
      /\ CacheGetValue(cache, k, now) = lastSet[k].value
      /\ (lastOp.op = "get" /\ lastOp.key = k) => lastOp.result = lastSet[k].value
\* get returned the value of a set at the last instant before its expiry,
\* the cache being full and another key having been set since
C24_Witness ==
  /\ lastOp.op = "get"
  /\ lastSet[lastOp.key] # NoStore
  /\ now - lastSet[lastOp.key].storedAt = Expiry
  /\ lastOp.result = lastSet[lastOp.key].value
  /\ Len(cache) = MaxSize
  /\ \E i \in 1..Len(cache) : cache[i].timestamp > lastSet[lastOp.key].storedAt

\* call c returns its composite in this step, with or without the species
\* and without the chain, cached under both keys, and issues no request
ReturnsWithout(c, species) ==
  /\ dcall'[c].pc = "done"
  /\ dcall'[c].error = "none"
  /\ dcall'[c].result = c
  /\ dcall'[c].sp = species
  /\ ~dcall'[c].evo
  /\ dcall'[c].reqs = dcall[c].reqs
  /\ CacheGetValue(cache', EntityOf(dcall[c].arg), now) = c
  /\ CacheGetValue(cache', NameKey(ToLower(NameOf(EntityOf(dcall[c].arg)))), now) = c

\* C25: a base record without a species reference, and species metadata
\* without an evolution-chain reference, end getPokemonData normally: the
\* composite is returned and cached without that sub-object and the request
\* for it is not issued.
C25_AbsentReferenceOmitted ==
  [][\A c \in Calls :
       /\ DBaseOk(c, FALSE) => ReturnsWithout(c, FALSE)
       /\ DSpeciesOk(c, FALSE) => ReturnsWithout(c, TRUE)]_vars
\* one call returned a composite without species after one request, another
\* a composite with species and without chain after two
C25_Witness ==
  \E c, d \in Calls :
    /\ dcall[c].pc = "done" /\ dcall[c].result = c
    /\ ~dcall[c].sp /\ ~dcall[c].evo /\ dcall[c].reqs = 1
    /\ dcall[d].pc = "done" /\ dcall[d].result = d
    /\ dcall[d].sp /\ ~dcall[d].evo /\ dcall[d].reqs = 2
    /\ CacheGetValue(cache, ObjId(d), now) = d

\* a settled batch has one outcome per identifier, in order; an outcome of
\* batchFetchPokemon is a fulfilment with the composite of that identifier, or
\* the rejection of that identifier's resolution
BatchOutcomesRight ==
  batch.pc = "settled" =>
    /\ Len(batch.out) = Len(batch.ids)
    /\ \A i \in 1..Len(batch.ids) :
         /\ batch.out[i].status \in {"fulfilled", "rejected"}
         /\ batch.kind = "batch" =>
              /\ batch.out[i].status = "fulfilled" <=> dcall[i].pc = "done"
              /\ batch.out[i].status = "fulfilled" =>
                   ObjId(batch.out[i].value) = EntityOf(batch.ids[i])
              /\ batch.out[i].status = "rejected" => batch.out[i].reason = dcall[i].error
         /\ batch.kind = "preload" => batch.out[i].status = "fulfilled"

\* C26: a batch (batchFetchPokemon, _preloadAdjacent) never rejects; when it
\* settles it has one outcome per identifier; the failure of one identifier
\* changes no other resolution, and every resolution that completes is cached
\* whatever happened to the others.
C26_BatchNeverRejects ==
  [][/\ batch'.pc # "rejected"
     /\ BatchOutcomesRight'
     /\ \A c \in Calls :
          /\ (dcall[c].pc # "failed" /\ dcall'[c].pc = "failed")
               => \A d \in Calls \ {c} : dcall'[d] = dcall[d]
          /\ (InFlightData(c) /\ dcall'[c].pc = "done")
               => CacheGetValue(cache', EntityOf(dcall[c].arg), now) = c]_vars
\* a batch of two identifiers settled with a rejection for the first and the
\* composite of the second, which is cached
C26_Witness ==
  /\ batch.kind = "batch" /\ batch.pc = "settled"
  /\ Len(batch.ids) = 2
  /\ batch.out[1].status = "rejected"
  /\ batch.out[2].status = "fulfilled" /\ batch.out[2].value = 2
  /\ dcall[2].reqs > 0
  /\ CacheGetValue(cache, ObjId(2), now) = 2

\* C27: a search that is superseded and ends with an AbortError shows no
\* error message: neither fetchPokemonById nor _performSearch calls
\* ui.showError for it.
C27_AbortShowsNoError ==
  \A c \in Calls :
    (dcall[c].pc = "failed" /\ dcall[c].error = "abort" /\ signalOf[c] # Null)
      => signalOf[c] \notin shownError
\* one search ended with an AbortError and shows nothing, another failed
\* for a network error and shows its error
C27_Witness ==
  \E c, d \in Calls :
    /\ dcall[c].pc = "failed" /\ dcall[c].error = "abort"
    /\ search[signalOf[c]] = "ended" /\ signalOf[c] \notin shownError
    /\ dcall[d].pc = "failed" /\ dcall[d].error = "error"
    /\ signalOf[d] \in shownError

\* the matches the loop of _fuzzySearch collected before it ended
Collected == CollectMatches(fz.names, fz.query, 1, << >>)
\* the loop ended before it reached a name of the index that matches
StoppedEarly ==
  \E i \in 1..Len(fz.names) :
    /\ MatchPriority(fz.names[i], fz.query) # 0
    /\ \A k \in 1..Len(Collected) : Collected[k].name # fz.names[i]

\* C28: _fuzzySearch stops scanning early only once it has collected the
\* full number (100 in the program, MaxResults here) of matches of priority
\* 1 or 2; matches of priority 3 or 4 do not count.
C28_EarlyExitCountsHighPriority ==
  (fz.done /\ StoppedEarly) =>
    Cardinality({k \in 1..Len(Collected) : Collected[k].priority <= 2}) >= MaxResults

\* C29: _fuzzySearch returns no name of priority 3 or 4 while a name of the
\* index that contains the query as a substring is missing from its result.
C29_SubstringBeforeFuzzy ==
  fz.done =>
    ~ /\ \E k \in 1..Len(fz.out) : MatchPriority(fz.out[k], fz.query) \in {3, 4}
      /\ \E i \in 1..Len(fz.names) :
           /\ Includes(fz.names[i], fz.query)
           /\ \A k \in 1..Len(fz.out) : fz.out[k] # fz.names[i]

\* C30: in the queue-based RequestQueue at most one drain is active (an
\* invocation of process suspended at an await, or the timer that continues
\* it), and none without the processing flag; so at most one fetch is in
\* flight, a request's completion stamps lastRequest, and a fetch starts only
\* after the previous request has completed, at least MinInterval later.
C30_SingleDrain ==
  [][/\ Cardinality(active') + timers' <= 1
     /\ (active' # {} \/ timers' > 0) => processing'
     /\ Cardinality({a \in active' : a.pc \in {"fetching", "json"}}) <= 1
     /\ \A r \in Requests :
          (settled[r] = "pending" /\ settled'[r] # "pending") => lastRequest' = now
     /\ (Len(qdispatched') > Len(qdispatched) /\ Len(qdispatched) > 0)
          => /\ settled[qdispatched[Len(qdispatched)]] # "pending"
             /\ now >= lastRequest + MinInterval]_vars
\* the second fetch is in flight, started after the first request had
\* completed, while a third request waits in the queue
C30_Witness ==
  /\ Len(qdispatched) = 2
  /\ settled[qdispatched[1]] # "pending"
  /\ \E a \in active : a.pc = "fetching" /\ a.item = qdispatched[2]
  /\ Len(queue) = 1
  /\ now >= lastRequest + MinInterval

InSeq(seq, x) == \E i \in 1..Len(seq) : seq[i] = x

\* C31: when every fetch settles, every enqueued request is eventually
\* dispatched, exactly once, and its promise settled; and a non-empty queue
\* always has the processing flag set.
C31_EveryRequestSettles ==
  /\ [](\A i, j \in 1..Len(qdispatched) : qdispatched[i] = qdispatched[j] => i = j)
  /\ [](Len(queue) > 0 => processing)
  /\ \A r \in Requests :
       InSeq(enqueued, r) ~> (InSeq(qdispatched, r) /\ settled[r] # "pending")
\* every request was enqueued, dispatched and settled, one of them by a
\* failure, and the drain has stopped on the empty queue
C31_Witness ==
  /\ Len(enqueued) = MaxReq
  /\ \A r \in Requests : InSeq(qdispatched, r) /\ settled[r] # "pending"
  /\ \E r \in Requests : Failed(r)
  /\ ~processing /\ timers = 0 /\ active = {}

\* C32: in the Cache with an lruQueue, get on a hit and set both move the key
\* to the most-recent end: the queue, read over the keys that are present, is
\* the order of the last read or write, and a set that prunes removes the key
\* that was read or written least recently among those present, also when get
\* dropped expired entries before
LruPresent(q, m) == SelectSeq(q, LAMBDA x : x \in LruKeys(m))
C32_PruneRemovesLeastRecent ==
  /\ [](LruPresent(lruQueue, lruCache) = lruTouched)
  /\ [][\A r \in LruKeys(lruCache) \ LruKeys(lruCache') :
          LruKeys(lruCache') \ LruKeys(lruCache) # {} => r = Head(lruTouched)]_vars
C32_Witness ==
  /\ lruVersion = "pokedex.js"
  /\ Len(lruShifted) = 2
  /\ Cardinality(lruCache) = LruMaxSize
  /\ \E k \in LruKeys(lruCache) : lruTouched[1] = k /\ LruEntry(lruCache, k).timestamp < now

\* C33: a set on a key that is already present only replaces that key's
\* entry: every other key that was present and unexpired before the set is
\* still present after it, also when the cache is at maxSize
C33_OverwriteKeepsOthers ==
  [][(lastOp'.op = "set" /\ HasKey(cache, lastOp'.key)) =>
       \A x \in Keys \ {lastOp'.key} :
         (HasKey(cache, x) /\ ~IsExpired(EntryOf(cache, x), now)) => HasKey(cache', x)]_vars

\* C34: progressivelyLoadPokemonList fetches the pages one at a time and in
\* order: a page request is issued only when the response before it has been
\* processed (the temporary list holds exactly the entries of all earlier
\* pages, in catalog order), it asks for the page that follows, and past the
\* first page it is issued only when the previous response had a next link
\* (entries remain at its offset)
C34_PagesInOrder ==
  [][(lcall'.pc = "page" /\ lcall'.reqs = lcall.reqs + 1) =>
       /\ lcall.pc \in {"count", "page", "yield"}
       /\ lcall'.page = IF lcall.pc = "count" THEN 1 ELSE lcall.page + 1
       /\ lcall'.temp = [i \in 1..((lcall'.page - 1) * PageSize) |-> CatalogEntry(i)]
       /\ lcall'.page > 1 => (lcall'.page - 1) * PageSize < remoteCount]_vars
\* the second page has been requested after the first was processed
C34_Witness ==
  /\ lcall.pc = "page"
  /\ lcall.page = 2
  /\ Len(lcall.temp) = PageSize

\* C35: pokemonNameArray holds exactly the keys of pokemonNameMap: every name
\* that the exact lookup resolves is in the array _fuzzySearch scans, and
\* every name of the array has an id in the map
C35_ArrayIsMapKeys ==
  {pokemonNameArray[i] : i \in 1..Len(pokemonNameArray)} = {q[1] : q \in nameMap}

\* C36: _fuzzySearch assigns priority 2 to no name: a name that starts with
\* the query contains it, so it is classified as a substring match
\* (priority 1) and the prefix tier never decides
C36_PrefixTierUnreachable ==
  fz.done =>
    \A i \in 1..Len(fz.names) :
      /\ PriorityOf(fz.names[i]) # 2
      /\ StartsWith(fz.names[i], fz.query) => PriorityOf(fz.names[i]) = 1
\* a search returned a name whose only occurrence of the query is its prefix
C36_Witness ==
  /\ fz.done
  /\ \E i \in 1..Len(fz.names) :
       /\ Len(fz.query) > 0
       /\ StartsWith(fz.names[i], fz.query)
       /\ ~Includes(Tail(fz.names[i]), fz.query)
       /\ \E j \in 1..Len(fz.out) : fz.out[j] = fz.names[i]

\* C37: the multi-token tier needs at least one query token: for a non-empty
\* query made only of '-' and '_' characters, _fuzzySearch returns only names
\* that contain the query as a substring
OnlySeparators(query) ==
  Len(query) > 0 /\ \A i \in 1..Len(query) : query[i] \in {"-", "_"}
C37_SeparatorQueryMatchesSubstringOnly ==
  (fz.done /\ OnlySeparators(fz.query)) =>
    \A j \in 1..Len(fz.out) : Includes(fz.out[j], fz.query)

\* C38: for a finite threshold T, _computeLevenshtein(a, b, T) <= T exactly
\* when the edit distance of a and b is <= T, and the result for (a, b) is
\* the result for (b, a)
C38_ThresholdTestAndSymmetry ==
  (lev.out # -1 /\ lev.threshold # Infinity) =>
    /\ (lev.out <= lev.threshold) <=> (EditDistance(lev.s1, lev.s2) <= lev.threshold)
    /\ lev.out = ComputeLevenshtein(lev.s2, lev.s1, lev.threshold)
\* the first half alone: the comparison with the threshold is exact
C38_ThresholdTest ==
  (lev.out # -1 /\ lev.threshold # Infinity) =>
    ((lev.out <= lev.threshold) <=> (EditDistance(lev.s1, lev.s2) <= lev.threshold))

\* C39: at most one navigation is in progress at a time: a call made while
\* isNavigating is true is dropped and changes nothing; isNavigating is true
\* exactly while a navigation awaits its fetch, so it is false again after
\* every navigation ends, whether the fetch succeeded or failed
Navigating == {c \in NavCalls : nav[c].pc = "fetching"}
C39_OneNavigation ==
  /\ [](Cardinality(Navigating) <= 1 /\ (isNavigating <=> Navigating # {}))
  /\ [][\A c \in NavCalls :
          (nav[c].pc = "idle" /\ nav'[c].pc # "idle" /\ isNavigating) =>
             /\ nav'[c].pc = "dropped"
             /\ isNavigating'
             /\ currentId' = currentId
             /\ Navigating' = Navigating]_vars
\* one call was dropped, one navigation failed and one succeeded, and the
\* flag is false again
C39_Witness ==
  /\ ~isNavigating
  /\ \E a, b, c \in NavCalls :
       nav[a].pc = "dropped" /\ nav[b].pc = "failed" /\ nav[c].pc = "shown"
====
